---------------------------- MODULE Spec2Model ----------------------------
(***************************************************************************)
(* Model of the prompt-refiner application: the PromptRefiner service      *)
(* (services/refiner.py), the LLMClient (services/llm_client.py) and the   *)
(* /refine and /download handlers (app.py).                                *)
(*                                                                         *)
(* Text is modelled as Python str: a sequence of characters, each a        *)
(* one-character string.  The backtick, which a TLA+ string cannot hold,   *)
(* is the character BACKTICK.  All str operations the code uses (strip,    *)
(* lower, title, replace, split, in, join, re.search, re.findall,          *)
(* json.loads) are operators over such sequences.                          *)
(***************************************************************************)
EXTENDS Integers, Sequences, FiniteSets, TLC

VARIABLES
  api_key,        \* os.environ.get('OPENAI_API_KEY') at construction
  init_ok,        \* whether OpenAI(api_key=...) constructs without raising
  openai_client,  \* LLMClient.openai_client: "None" or "client"
  session,        \* flask session: the 'last_refined' record or NoRecord
  now,            \* the clock datetime.now() reads
  op,             \* the operation that ran last, or "request" when one is about to run
  req,            \* its arguments
  api,            \* what the OpenAI API does when called during it
  api_calls,      \* chat.completions.create calls made during it
  llm_out,        \* what refine_with_llm did during it, if it was called
  calls,          \* direct calls of _heuristic_refine made so far
  out,            \* what the operation returned or raised, or the JSON body it answered
  status,         \* the HTTP status a handler answered, 0 outside the handlers
  download,       \* the file /download answered
  detected_language  \* what _detect_language returned when called, "None" before

vars == <<api_key, init_ok, openai_client, session, now, op, req, api, api_calls, llm_out, calls, out, status, download,
          detected_language>>

---------------------------------------------------------------------------
(* Python str primitives *)

BACKTICK == "<backtick>"

UPPER == <<"A", "B", "C", "D", "E", "F", "G", "H", "I", "J", "K", "L", "M", "N", "O", "P", "Q", "R", "S", "T", "U", "V", "W", "X", "Y", "Z">>
LOWER == <<"a", "b", "c", "d", "e", "f", "g", "h", "i", "j", "k", "l", "m", "n", "o", "p", "q", "r", "s", "t", "u", "v", "w", "x", "y", "z">>

UpperSet == {UPPER[i] : i \in 1..26}
LowerSet == {LOWER[i] : i \in 1..26}
ToLowerMap == [c \in UpperSet |-> LOWER[CHOOSE i \in 1..26 : UPPER[i] = c]]
ToUpperMap == [c \in LowerSet |-> UPPER[CHOOSE i \in 1..26 : LOWER[i] = c]]

\* str.lower() / str.upper() of one character
LowerChar(c) == IF c \in UpperSet THEN ToLowerMap[c] ELSE c
UpperChar(c) == IF c \in LowerSet THEN ToUpperMap[c] ELSE c
IsCased(c) == c \in UpperSet \/ c \in LowerSet

\* str.isspace() of one character, also the regex class \s
IsSpace(c) == c \in {" ", "\n", "\t"}

\* a function with domain 1..n as the tuple it is
AsTuple(f) == f \o <<>>

\* str.lower()
Lower(t) == AsTuple([i \in 1..Len(t) |-> LowerChar(t[i])])

\* str.title(): a cased character is upper-cased after an uncased one (or at
\* the start) and lower-cased after a cased one
Title(t) ==
  AsTuple([i \in 1..Len(t) |->
             IF i > 1 /\ IsCased(t[i-1]) THEN LowerChar(t[i]) ELSE UpperChar(t[i])])

\* str.replace(a, b) for single characters a, b
ReplaceChar(t, a, b) == AsTuple([i \in 1..Len(t) |-> IF t[i] = a THEN b ELSE t[i]])

\* str.strip()
Strip(t) ==
  IF \A i \in 1..Len(t) : IsSpace(t[i]) THEN <<>>
  ELSE LET first == CHOOSE i \in 1..Len(t) :
                      ~IsSpace(t[i]) /\ \A j \in 1..(i-1) : IsSpace(t[j])
           last == CHOOSE i \in 1..Len(t) :
                      ~IsSpace(t[i]) /\ \A j \in (i+1)..Len(t) : IsSpace(t[j])
       IN  SubSeq(t, first, last)

\* t[i:].startswith(k), 1-based
StartsWithAt(t, k, i) ==
  /\ i + Len(k) - 1 <= Len(t)
  /\ \A j \in 1..Len(k) : t[i + j - 1] = k[j]

\* k in t (substring test)
Contains(t, k) ==
  \E i \in 1..(Len(t) - Len(k) + 1) : \A j \in 1..Len(k) : t[i + j - 1] = k[j]

\* any(word in t for word in words)
ContainsAny(t, words) == \E w \in 1..Len(words) : Contains(t, words[w])

\* x in list
InList(x, list) == \E i \in 1..Len(list) : list[i] = x

\* sep.join(list)
RECURSIVE Join(_, _)
Join(list, sep) ==
  IF Len(list) = 0 THEN <<>>
  ELSE IF Len(list) = 1 THEN list[1]
  ELSE list[1] \o sep \o Join(Tail(list), sep)

\* the least index i >= from with t[i] in chars, or Len(t) + 1 when there is none
FindChar(t, chars, from) ==
  IF \E i \in from..Len(t) : t[i] \in chars
  THEN CHOOSE i \in from..Len(t) :
         t[i] \in chars /\ \A j \in from..(i-1) : t[j] \notin chars
  ELSE Len(t) + 1

---------------------------------------------------------------------------
(* String literals of services/refiner.py and services/llm_client.py *)

\* '**Role:** You are an expert assistant specialized in this task.'
ROLE_SECTION == <<"*", "*", "R", "o", "l", "e", ":", "*", "*", " ", "Y", "o", "u", " ", "a", "r", "e", " ", "a", "n", " ", "e", "x", "p", "e", "r", "t", " ", "a", "s", "s", "i", "s", "t", "a", "n", "t", " ", "s", "p", "e", "c", "i", "a", "l", "i", "z", "e", "d", " ", "i", "n", " ", "t", "h", "i", "s", " ", "t", "a", "s", "k", ".">>
\* '**Objective:** '
OBJECTIVE_LABEL == <<"*", "*", "O", "b", "j", "e", "c", "t", "i", "v", "e", ":", "*", "*", " ">>
\* '**Task:** '
TASK_LABEL == <<"*", "*", "T", "a", "s", "k", ":", "*", "*", " ">>
\* '**Requirements:**\n'
REQUIREMENTS_LABEL == <<"*", "*", "R", "e", "q", "u", "i", "r", "e", "m", "e", "n", "t", "s", ":", "*", "*", "\n">>
\* '**Prompting Technique:**\n'
TECHNIQUE_LABEL == <<"*", "*", "P", "r", "o", "m", "p", "t", "i", "n", "g", " ", "T", "e", "c", "h", "n", "i", "q", "u", "e", ":", "*", "*", "\n">>
\* '**AI Tool Optimization:**\n'
TOOL_LABEL == <<"*", "*", "A", "I", " ", "T", "o", "o", "l", " ", "O", "p", "t", "i", "m", "i", "z", "a", "t", "i", "o", "n", ":", "*", "*", "\n">>
\* '**Output Format:** '
OUTPUT_FORMAT_LABEL == <<"*", "*", "O", "u", "t", "p", "u", "t", " ", "F", "o", "r", "m", "a", "t", ":", "*", "*", " ">>
\* '**Self-Check:** Before responding, verify that your output meets all requirements and addresses the core objective.'
SELF_CHECK_SECTION == <<"*", "*", "S", "e", "l", "f", "-", "C", "h", "e", "c", "k", ":", "*", "*", " ", "B", "e", "f", "o", "r", "e", " ", "r", "e", "s", "p", "o", "n", "d", "i", "n", "g", ",", " ", "v", "e", "r", "i", "f", "y", " ", "t", "h", "a", "t", " ", "y", "o", "u", "r", " ", "o", "u", "t", "p", "u", "t", " ", "m", "e", "e", "t", "s", " ", "a", "l", "l", " ", "r", "e", "q", "u", "i", "r", "e", "m", "e", "n", "t", "s", " ", "a", "n", "d", " ", "a", "d", "d", "r", "e", "s", "s", "e", "s", " ", "t", "h", "e", " ", "c", "o", "r", "e", " ", "o", "b", "j", "e", "c", "t", "i", "v", "e", ".">>
\* '\n\n'
SECTION_SEPARATOR == <<"\n", "\n">>
\* 'added clear role definition'
IMPROVED_ROLE == <<"a", "d", "d", "e", "d", " ", "c", "l", "e", "a", "r", " ", "r", "o", "l", "e", " ", "d", "e", "f", "i", "n", "i", "t", "i", "o", "n">>
\* 'clarified objective'
IMPROVED_OBJECTIVE == <<"c", "l", "a", "r", "i", "f", "i", "e", "d", " ", "o", "b", "j", "e", "c", "t", "i", "v", "e">>
\* 'added specific requirements'
IMPROVED_REQUIREMENTS == <<"a", "d", "d", "e", "d", " ", "s", "p", "e", "c", "i", "f", "i", "c", " ", "r", "e", "q", "u", "i", "r", "e", "m", "e", "n", "t", "s">>
\* 'applied prompt engineering techniques'
IMPROVED_TECHNIQUES == <<"a", "p", "p", "l", "i", "e", "d", " ", "p", "r", "o", "m", "p", "t", " ", "e", "n", "g", "i", "n", "e", "e", "r", "i", "n", "g", " ", "t", "e", "c", "h", "n", "i", "q", "u", "e", "s">>
\* 'added tool-specific optimization'
IMPROVED_TOOL == <<"a", "d", "d", "e", "d", " ", "t", "o", "o", "l", "-", "s", "p", "e", "c", "i", "f", "i", "c", " ", "o", "p", "t", "i", "m", "i", "z", "a", "t", "i", "o", "n">>
\* 'specified output format'
IMPROVED_OUTPUT_FORMAT == <<"s", "p", "e", "c", "i", "f", "i", "e", "d", " ", "o", "u", "t", "p", "u", "t", " ", "f", "o", "r", "m", "a", "t">>
\* 'added self-check criteria'
IMPROVED_SELF_CHECK == <<"a", "d", "d", "e", "d", " ", "s", "e", "l", "f", "-", "c", "h", "e", "c", "k", " ", "c", "r", "i", "t", "e", "r", "i", "a">>
\* 'Applied heuristic refinement'
RATIONALE_BASE == <<"A", "p", "p", "l", "i", "e", "d", " ", "h", "e", "u", "r", "i", "s", "t", "i", "c", " ", "r", "e", "f", "i", "n", "e", "m", "e", "n", "t">>
\* 'optimized for '
RATIONALE_TOOL_PREFIX == <<"o", "p", "t", "i", "m", "i", "z", "e", "d", " ", "f", "o", "r", " ">>
\* 'using '
RATIONALE_USING == <<"u", "s", "i", "n", "g", " ">>
\* ' techniques'
RATIONALE_TECHNIQUES_SUFFIX == <<" ", "t", "e", "c", "h", "n", "i", "q", "u", "e", "s">>
\* 'incorporating custom techniques: '
RATIONALE_CUSTOM_PREFIX == <<"i", "n", "c", "o", "r", "p", "o", "r", "a", "t", "i", "n", "g", " ", "c", "u", "s", "t", "o", "m", " ", "t", "e", "c", "h", "n", "i", "q", "u", "e", "s", ":", " ">>
\* ' and '
RATIONALE_AND == <<" ", "a", "n", "d", " ">>
\* '. Enhanced structure and clarity using prompt engineering best practices.'
RATIONALE_CLOSING == <<".", " ", "E", "n", "h", "a", "n", "c", "e", "d", " ", "s", "t", "r", "u", "c", "t", "u", "r", "e", " ", "a", "n", "d", " ", "c", "l", "a", "r", "i", "t", "y", " ", "u", "s", "i", "n", "g", " ", "p", "r", "o", "m", "p", "t", " ", "e", "n", "g", "i", "n", "e", "e", "r", "i", "n", "g", " ", "b", "e", "s", "t", " ", "p", "r", "a", "c", "t", "i", "c", "e", "s", ".">>
\* ['you are', 'act as', 'role:', 'as a']
ROLE_WORDS ==
  << <<"y", "o", "u", " ", "a", "r", "e">>,
     <<"a", "c", "t", " ", "a", "s">>,
     <<"r", "o", "l", "e", ":">>,
     <<"a", "s", " ", "a">> >>
\* ['objective:', 'goal:', 'purpose:', 'aim:']
OBJECTIVE_WORDS ==
  << <<"o", "b", "j", "e", "c", "t", "i", "v", "e", ":">>,
     <<"g", "o", "a", "l", ":">>,
     <<"p", "u", "r", "p", "o", "s", "e", ":">>,
     <<"a", "i", "m", ":">> >>
\* ['must', 'should', 'requirements:', 'constraints:']
CONSTRAINT_WORDS ==
  << <<"m", "u", "s", "t">>,
     <<"s", "h", "o", "u", "l", "d">>,
     <<"r", "e", "q", "u", "i", "r", "e", "m", "e", "n", "t", "s", ":">>,
     <<"c", "o", "n", "s", "t", "r", "a", "i", "n", "t", "s", ":">> >>
\* ['format:', 'structure:', 'output:', 'return']
OUTPUT_FORMAT_WORDS ==
  << <<"f", "o", "r", "m", "a", "t", ":">>,
     <<"s", "t", "r", "u", "c", "t", "u", "r", "e", ":">>,
     <<"o", "u", "t", "p", "u", "t", ":">>,
     <<"r", "e", "t", "u", "r", "n">> >>
\* ['example:', 'for instance', 'such as']
EXAMPLE_WORDS ==
  << <<"e", "x", "a", "m", "p", "l", "e", ":">>,
     <<"f", "o", "r", " ", "i", "n", "s", "t", "a", "n", "c", "e">>,
     <<"s", "u", "c", "h", " ", "a", "s">> >>
\* ['objective', 'goal', 'purpose']
objective_patterns ==
  << <<"o", "b", "j", "e", "c", "t", "i", "v", "e">>,
     <<"g", "o", "a", "l">>,
     <<"p", "u", "r", "p", "o", "s", "e">> >>
\* 'Complete the following task effectively: '
OBJECTIVE_TEMPLATE == <<"C", "o", "m", "p", "l", "e", "t", "e", " ", "t", "h", "e", " ", "f", "o", "l", "l", "o", "w", "i", "n", "g", " ", "t", "a", "s", "k", " ", "e", "f", "f", "e", "c", "t", "i", "v", "e", "l", "y", ":", " ">>
\* '...'
ELLIPSIS == <<".", ".", ".">>
\* '\n\nThink through this step-by-step, explaining your reasoning at each stage.'
COT_APPEND == <<"\n", "\n", "T", "h", "i", "n", "k", " ", "t", "h", "r", "o", "u", "g", "h", " ", "t", "h", "i", "s", " ", "s", "t", "e", "p", "-", "b", "y", "-", "s", "t", "e", "p", ",", " ", "e", "x", "p", "l", "a", "i", "n", "i", "n", "g", " ", "y", "o", "u", "r", " ", "r", "e", "a", "s", "o", "n", "i", "n", "g", " ", "a", "t", " ", "e", "a", "c", "h", " ", "s", "t", "a", "g", "e", ".">>
\* '\n\nConsider multiple approaches to this problem, evaluate their merits, and choose the best path forward.'
TOT_APPEND == <<"\n", "\n", "C", "o", "n", "s", "i", "d", "e", "r", " ", "m", "u", "l", "t", "i", "p", "l", "e", " ", "a", "p", "p", "r", "o", "a", "c", "h", "e", "s", " ", "t", "o", " ", "t", "h", "i", "s", " ", "p", "r", "o", "b", "l", "e", "m", ",", " ", "e", "v", "a", "l", "u", "a", "t", "e", " ", "t", "h", "e", "i", "r", " ", "m", "e", "r", "i", "t", "s", ",", " ", "a", "n", "d", " ", "c", "h", "o", "o", "s", "e", " ", "t", "h", "e", " ", "b", "e", "s", "t", " ", "p", "a", "t", "h", " ", "f", "o", "r", "w", "a", "r", "d", ".">>
\* '\n\nGenerate multiple solutions and verify consistency across approaches.'
SC_APPEND == <<"\n", "\n", "G", "e", "n", "e", "r", "a", "t", "e", " ", "m", "u", "l", "t", "i", "p", "l", "e", " ", "s", "o", "l", "u", "t", "i", "o", "n", "s", " ", "a", "n", "d", " ", "v", "e", "r", "i", "f", "y", " ", "c", "o", "n", "s", "i", "s", "t", "e", "n", "c", "y", " ", "a", "c", "r", "o", "s", "s", " ", "a", "p", "p", "r", "o", "a", "c", "h", "e", "s", ".">>
\* '\n\nApproach this systematically, considering each aspect carefully.'
SYSTEMATIC_APPEND == <<"\n", "\n", "A", "p", "p", "r", "o", "a", "c", "h", " ", "t", "h", "i", "s", " ", "s", "y", "s", "t", "e", "m", "a", "t", "i", "c", "a", "l", "l", "y", ",", " ", "c", "o", "n", "s", "i", "d", "e", "r", "i", "n", "g", " ", "e", "a", "c", "h", " ", "a", "s", "p", "e", "c", "t", " ", "c", "a", "r", "e", "f", "u", "l", "l", "y", ".">>
\* ['analyze', 'create', 'develop', 'design']
COMPLEX_WORDS ==
  << <<"a", "n", "a", "l", "y", "z", "e">>,
     <<"c", "r", "e", "a", "t", "e">>,
     <<"d", "e", "v", "e", "l", "o", "p">>,
     <<"d", "e", "s", "i", "g", "n">> >>
\* 'step'
STEP == <<"s", "t", "e", "p">>
\* 'think'
THINK == <<"t", "h", "i", "n", "k">>
\* ['must', 'should', 'need to', 'required', 'ensure']
constraint_indicators ==
  << <<"m", "u", "s", "t">>,
     <<"s", "h", "o", "u", "l", "d">>,
     <<"n", "e", "e", "d", " ", "t", "o">>,
     <<"r", "e", "q", "u", "i", "r", "e", "d">>,
     <<"e", "n", "s", "u", "r", "e">> >>
\* ['- Provide accurate and relevant information', '- Be clear and concise in your response', '- Address all aspects of the request']
DEFAULT_CONSTRAINTS ==
  << <<"-", " ", "P", "r", "o", "v", "i", "d", "e", " ", "a", "c", "c", "u", "r", "a", "t", "e", " ", "a", "n", "d", " ", "r", "e", "l", "e", "v", "a", "n", "t", " ", "i", "n", "f", "o", "r", "m", "a", "t", "i", "o", "n">>,
     <<"-", " ", "B", "e", " ", "c", "l", "e", "a", "r", " ", "a", "n", "d", " ", "c", "o", "n", "c", "i", "s", "e", " ", "i", "n", " ", "y", "o", "u", "r", " ", "r", "e", "s", "p", "o", "n", "s", "e">>,
     <<"-", " ", "A", "d", "d", "r", "e", "s", "s", " ", "a", "l", "l", " ", "a", "s", "p", "e", "c", "t", "s", " ", "o", "f", " ", "t", "h", "e", " ", "r", "e", "q", "u", "e", "s", "t">> >>
\* '- '
BULLET == <<"-", " ">>
\* _suggest_output_format: keyword groups in priority order, each with its suggestion
OUTPUT_FORMAT_GROUPS ==
  << [words |-> << <<"l", "i", "s", "t">>, <<"s", "t", "e", "p", "s">>, <<"p", "o", "i", "n", "t", "s">> >>,
      text |-> <<"P", "r", "o", "v", "i", "d", "e", " ", "y", "o", "u", "r", " ", "r", "e", "s", "p", "o", "n", "s", "e", " ", "a", "s", " ", "a", " ", "n", "u", "m", "b", "e", "r", "e", "d", " ", "o", "r", " ", "b", "u", "l", "l", "e", "t", "e", "d", " ", "l", "i", "s", "t", ".">>],
     [words |-> << <<"a", "n", "a", "l", "y", "z", "e">>, <<"c", "o", "m", "p", "a", "r", "e">>, <<"e", "v", "a", "l", "u", "a", "t", "e">> >>,
      text |-> <<"S", "t", "r", "u", "c", "t", "u", "r", "e", " ", "y", "o", "u", "r", " ", "r", "e", "s", "p", "o", "n", "s", "e", " ", "w", "i", "t", "h", " ", "c", "l", "e", "a", "r", " ", "h", "e", "a", "d", "i", "n", "g", "s", " ", "a", "n", "d", " ", "d", "e", "t", "a", "i", "l", "e", "d", " ", "e", "x", "p", "l", "a", "n", "a", "t", "i", "o", "n", "s", ".">>],
     [words |-> << <<"c", "o", "d", "e">>, <<"s", "c", "r", "i", "p", "t">>, <<"p", "r", "o", "g", "r", "a", "m">> >>,
      text |-> <<"P", "r", "o", "v", "i", "d", "e", " ", "c", "o", "d", "e", " ", "w", "i", "t", "h", " ", "c", "o", "m", "m", "e", "n", "t", "s", " ", "a", "n", "d", " ", "b", "r", "i", "e", "f", " ", "e", "x", "p", "l", "a", "n", "a", "t", "i", "o", "n", "s", ".">>],
     [words |-> << <<"s", "u", "m", "m", "a", "r", "y">>, <<"b", "r", "i", "e", "f">> >>,
      text |-> <<"P", "r", "o", "v", "i", "d", "e", " ", "a", " ", "c", "o", "n", "c", "i", "s", "e", " ", "s", "u", "m", "m", "a", "r", "y", " ", "w", "i", "t", "h", " ", "k", "e", "y", " ", "p", "o", "i", "n", "t", "s", " ", "h", "i", "g", "h", "l", "i", "g", "h", "t", "e", "d", ".">>] >>
\* 'Provide a well-structured response that directly addresses the request.'
OUTPUT_FORMAT_DEFAULT == <<"P", "r", "o", "v", "i", "d", "e", " ", "a", " ", "w", "e", "l", "l", "-", "s", "t", "r", "u", "c", "t", "u", "r", "e", "d", " ", "r", "e", "s", "p", "o", "n", "s", "e", " ", "t", "h", "a", "t", " ", "d", "i", "r", "e", "c", "t", "l", "y", " ", "a", "d", "d", "r", "e", "s", "s", "e", "s", " ", "t", "h", "e", " ", "r", "e", "q", "u", "e", "s", "t", ".">>
\* 'chain_of_thought'
chain_of_thought == <<"c", "h", "a", "i", "n", "_", "o", "f", "_", "t", "h", "o", "u", "g", "h", "t">>
\* 'tree_of_thought'
tree_of_thought == <<"t", "r", "e", "e", "_", "o", "f", "_", "t", "h", "o", "u", "g", "h", "t">>
\* 'one_shot'
one_shot == <<"o", "n", "e", "_", "s", "h", "o", "t">>
\* 'few_shot'
few_shot == <<"f", "e", "w", "_", "s", "h", "o", "t">>
\* 'self_consistency'
self_consistency == <<"s", "e", "l", "f", "_", "c", "o", "n", "s", "i", "s", "t", "e", "n", "c", "y">>
\* 'instruct_reasoning'
instruct_reasoning == <<"i", "n", "s", "t", "r", "u", "c", "t", "_", "r", "e", "a", "s", "o", "n", "i", "n", "g">>
\* 'instruct_search'
instruct_search == <<"i", "n", "s", "t", "r", "u", "c", "t", "_", "s", "e", "a", "r", "c", "h">>
\* 'auto'
auto == <<"a", "u", "t", "o">>
\* 'unspecified'
unspecified == <<"u", "n", "s", "p", "e", "c", "i", "f", "i", "e", "d">>
\* ['chain_of_thought', 'tree_of_thought', 'one_shot', 'few_shot', 'self_consistency']
TECHNIQUE_GUIDANCE ==
  << << <<"c", "h", "a", "i", "n", "_", "o", "f", "_", "t", "h", "o", "u", "g", "h", "t">>,
        <<"-", " ", "U", "s", "e", " ", "C", "h", "a", "i", "n", " ", "o", "f", " ", "T", "h", "o", "u", "g", "h", "t", ":", " ", "B", "r", "e", "a", "k", " ", "d", "o", "w", "n", " ", "c", "o", "m", "p", "l", "e", "x", " ", "r", "e", "a", "s", "o", "n", "i", "n", "g", " ", "i", "n", "t", "o", " ", "e", "x", "p", "l", "i", "c", "i", "t", " ", "s", "t", "e", "p", "s">> >>,
     << <<"t", "r", "e", "e", "_", "o", "f", "_", "t", "h", "o", "u", "g", "h", "t">>,
        <<"-", " ", "U", "s", "e", " ", "T", "r", "e", "e", " ", "o", "f", " ", "T", "h", "o", "u", "g", "h", "t", ":", " ", "E", "x", "p", "l", "o", "r", "e", " ", "m", "u", "l", "t", "i", "p", "l", "e", " ", "r", "e", "a", "s", "o", "n", "i", "n", "g", " ", "p", "a", "t", "h", "s", " ", "a", "n", "d", " ", "s", "e", "l", "e", "c", "t", " ", "t", "h", "e", " ", "b", "e", "s", "t", " ", "a", "p", "p", "r", "o", "a", "c", "h">> >>,
     << <<"o", "n", "e", "_", "s", "h", "o", "t">>,
        <<"-", " ", "U", "s", "e", " ", "O", "n", "e", "-", "s", "h", "o", "t", " ", "L", "e", "a", "r", "n", "i", "n", "g", ":", " ", "P", "r", "o", "v", "i", "d", "e", " ", "o", "n", "e", " ", "c", "l", "e", "a", "r", " ", "e", "x", "a", "m", "p", "l", "e", " ", "t", "o", " ", "g", "u", "i", "d", "e", " ", "t", "h", "e", " ", "r", "e", "s", "p", "o", "n", "s", "e", " ", "f", "o", "r", "m", "a", "t">> >>,
     << <<"f", "e", "w", "_", "s", "h", "o", "t">>,
        <<"-", " ", "U", "s", "e", " ", "F", "e", "w", "-", "s", "h", "o", "t", " ", "L", "e", "a", "r", "n", "i", "n", "g", ":", " ", "I", "n", "c", "l", "u", "d", "e", " ", "2", "-", "3", " ", "e", "x", "a", "m", "p", "l", "e", "s", " ", "d", "e", "m", "o", "n", "s", "t", "r", "a", "t", "i", "n", "g", " ", "t", "h", "e", " ", "d", "e", "s", "i", "r", "e", "d", " ", "o", "u", "t", "p", "u", "t">> >>,
     << <<"s", "e", "l", "f", "_", "c", "o", "n", "s", "i", "s", "t", "e", "n", "c", "y">>,
        <<"-", " ", "U", "s", "e", " ", "S", "e", "l", "f", "-", "c", "o", "n", "s", "i", "s", "t", "e", "n", "c", "y", ":", " ", "G", "e", "n", "e", "r", "a", "t", "e", " ", "m", "u", "l", "t", "i", "p", "l", "e", " ", "r", "e", "a", "s", "o", "n", "i", "n", "g", " ", "p", "a", "t", "h", "s", " ", "a", "n", "d", " ", "c", "h", "o", "o", "s", "e", " ", "t", "h", "e", " ", "m", "o", "s", "t", " ", "c", "o", "n", "s", "i", "s", "t", "e", "n", "t", " ", "a", "n", "s", "w", "e", "r">> >> >>
\* '- Custom Techniques: Apply '
CUSTOM_GUIDANCE_PREFIX == <<"-", " ", "C", "u", "s", "t", "o", "m", " ", "T", "e", "c", "h", "n", "i", "q", "u", "e", "s", ":", " ", "A", "p", "p", "l", "y", " ">>
\* ['chatgpt', 'gemini', 'claude', 'perplexity', 'copilot']
TOOL_GUIDANCE ==
  << << <<"c", "h", "a", "t", "g", "p", "t">>,
        <<"-", " ", "F", "o", "r", " ", "C", "h", "a", "t", "G", "P", "T", ":", " ", "U", "s", "e", " ", "c", "l", "e", "a", "r", ",", " ", "c", "o", "n", "v", "e", "r", "s", "a", "t", "i", "o", "n", "a", "l", " ", "l", "a", "n", "g", "u", "a", "g", "e", " ", "a", "n", "d", " ", "b", "r", "e", "a", "k", " ", "c", "o", "m", "p", "l", "e", "x", " ", "t", "a", "s", "k", "s", " ", "i", "n", "t", "o", " ", "s", "t", "e", "p", "s">> >>,
     << <<"g", "e", "m", "i", "n", "i">>,
        <<"-", " ", "F", "o", "r", " ", "G", "e", "m", "i", "n", "i", ":", " ", "L", "e", "v", "e", "r", "a", "g", "e", " ", "m", "u", "l", "t", "i", "m", "o", "d", "a", "l", " ", "c", "a", "p", "a", "b", "i", "l", "i", "t", "i", "e", "s", " ", "a", "n", "d", " ", "s", "t", "r", "u", "c", "t", "u", "r", "e", "d", " ", "r", "e", "a", "s", "o", "n", "i", "n", "g", " ", "w", "h", "e", "n", " ", "a", "p", "p", "l", "i", "c", "a", "b", "l", "e">> >>,
     << <<"c", "l", "a", "u", "d", "e">>,
        <<"-", " ", "F", "o", "r", " ", "C", "l", "a", "u", "d", "e", ":", " ", "E", "m", "p", "h", "a", "s", "i", "z", "e", " ", "a", "n", "a", "l", "y", "t", "i", "c", "a", "l", " ", "t", "h", "i", "n", "k", "i", "n", "g", " ", "a", "n", "d", " ", "d", "e", "t", "a", "i", "l", "e", "d", " ", "e", "x", "p", "l", "a", "n", "a", "t", "i", "o", "n", "s">> >>,
     << <<"p", "e", "r", "p", "l", "e", "x", "i", "t", "y">>,
        <<"-", " ", "F", "o", "r", " ", "P", "e", "r", "p", "l", "e", "x", "i", "t", "y", ":", " ", "I", "n", "c", "l", "u", "d", "e", " ", "s", "p", "e", "c", "i", "f", "i", "c", " ", "s", "e", "a", "r", "c", "h", " ", "t", "e", "r", "m", "s", " ", "a", "n", "d", " ", "r", "e", "q", "u", "e", "s", "t", " ", "c", "i", "t", "a", "t", "i", "o", "n", "s", " ", "f", "o", "r", " ", "f", "a", "c", "t", "u", "a", "l", " ", "c", "l", "a", "i", "m", "s">> >>,
     << <<"c", "o", "p", "i", "l", "o", "t">>,
        <<"-", " ", "F", "o", "r", " ", "C", "o", "p", "i", "l", "o", "t", ":", " ", "B", "e", " ", "s", "p", "e", "c", "i", "f", "i", "c", " ", "a", "b", "o", "u", "t", " ", "c", "o", "d", "e", " ", "r", "e", "q", "u", "i", "r", "e", "m", "e", "n", "t", "s", ",", " ", "l", "a", "n", "g", "u", "a", "g", "e", ",", " ", "a", "n", "d", " ", "d", "e", "s", "i", "r", "e", "d", " ", "f", "u", "n", "c", "t", "i", "o", "n", "a", "l", "i", "t", "y">> >> >>
\* 'Refined using OpenAI with prompt engineering best practices.'
LLM_FALLBACK_RATIONALE == <<"R", "e", "f", "i", "n", "e", "d", " ", "u", "s", "i", "n", "g", " ", "O", "p", "e", "n", "A", "I", " ", "w", "i", "t", "h", " ", "p", "r", "o", "m", "p", "t", " ", "e", "n", "g", "i", "n", "e", "e", "r", "i", "n", "g", " ", "b", "e", "s", "t", " ", "p", "r", "a", "c", "t", "i", "c", "e", "s", ".">>
\* 'refined_prompt'
REFINED_PROMPT_KEY == <<"r", "e", "f", "i", "n", "e", "d", "_", "p", "r", "o", "m", "p", "t">>
\* 'rationale'
RATIONALE_KEY == <<"r", "a", "t", "i", "o", "n", "a", "l", "e">>

---------------------------------------------------------------------------
(* Python values passed as selected_tool: a str, or the list that          *)
(* request.form.getlist returns                                            *)

StrVal(s) == [isList |-> FALSE, str |-> s, items |-> <<>>]
ListVal(l) == [isList |-> TRUE, str |-> <<>>, items |-> l]

\* bool(v): an empty str and an empty list are falsy
Truthy(v) == IF v.isList THEN Len(v.items) > 0 ELSE Len(v.str) > 0

\* v == s for a str literal s: a list never equals a str
EqualsStr(v, s) == ~v.isList /\ v.str = s

---------------------------------------------------------------------------
(* services/refiner.py: the heuristic refiner *)

ObjectiveMaxLen == 100
TaskLongLen == 200

\* _analyze_prompt without prompt.lower(): the words are looked for in the
\* prompt as written
_analyze_prompt_case_sensitive(prompt) ==
  [has_role |-> ContainsAny(prompt, ROLE_WORDS),
   has_clear_objective |-> ContainsAny(prompt, OBJECTIVE_WORDS),
   has_constraints |-> ContainsAny(prompt, CONSTRAINT_WORDS),
   has_output_format |-> ContainsAny(prompt, OUTPUT_FORMAT_WORDS),
   has_examples |-> ContainsAny(prompt, EXAMPLE_WORDS)]

_analyze_prompt(prompt) ==
  LET prompt_lower == Lower(prompt)
  IN  [has_role |-> ContainsAny(prompt_lower, ROLE_WORDS),
       has_clear_objective |-> ContainsAny(prompt_lower, OBJECTIVE_WORDS),
       has_constraints |-> ContainsAny(prompt_lower, CONSTRAINT_WORDS),
       has_output_format |-> ContainsAny(prompt_lower, OUTPUT_FORMAT_WORDS),
       has_examples |-> ContainsAny(prompt_lower, EXAMPLE_WORDS)]

\* the regex class [:\s]
IsObjectiveSep(c) == c = ":" \/ IsSpace(c)

\* Where group 1 of  word[:\s]+([^.\n]+)  can start when the word is matched
\* at index i: after one or more separators, at a character that is neither
\* "." nor a newline.  [:\s]+ is greedy, so the regex takes the last of them.
ObjectiveGroupStarts(t, word, i) ==
  LET s == i + Len(word)
      sepEnd == IF \E k \in s..Len(t) : ~IsObjectiveSep(t[k])
                THEN CHOOSE k \in s..Len(t) :
                       ~IsObjectiveSep(t[k]) /\ \A j \in s..(k-1) : IsObjectiveSep(t[j])
                ELSE Len(t) + 1
  IN  {g \in (s+1)..sepEnd : g <= Len(t) /\ t[g] \notin {".", "\n"}}

\* the indexes where re.search(pattern, prompt, re.IGNORECASE) can match
ObjectiveMatchIndexes(t, word) ==
  LET lower == Lower(t)
  IN  {i \in 1..(Len(t) - Len(word) + 1) :
         /\ StartsWithAt(lower, word, i)
         /\ ObjectiveGroupStarts(t, word, i) # {}}

\* re.search(pattern, prompt, re.IGNORECASE) finds a match
ObjectiveMatches(t, word) == ObjectiveMatchIndexes(t, word) # {}

\* match.group(1) of the leftmost match
ObjectiveGroup(t, word) ==
  LET hits == ObjectiveMatchIndexes(t, word)
      i == CHOOSE k \in hits : \A j \in hits : k <= j
      starts == ObjectiveGroupStarts(t, word, i)
      g == CHOOSE k \in starts : \A j \in starts : j <= k
  IN  SubSeq(t, g, FindChar(t, {".", "\n"}, g) - 1)

_extract_or_create_objective(prompt) ==
  IF \E p \in 1..Len(objective_patterns) : ObjectiveMatches(prompt, objective_patterns[p])
  THEN LET p == CHOOSE k \in 1..Len(objective_patterns) :
                  ObjectiveMatches(prompt, objective_patterns[k])
                  /\ \A j \in 1..(k-1) : ~ObjectiveMatches(prompt, objective_patterns[j])
       IN  Strip(ObjectiveGroup(prompt, objective_patterns[p]))
  ELSE LET sentence == Strip(SubSeq(prompt, 1, FindChar(prompt, {"."}, 1) - 1))
           first_sentence == IF Len(sentence) > ObjectiveMaxLen
                             THEN SubSeq(sentence, 1, ObjectiveMaxLen) \o ELLIPSIS
                             ELSE sentence
       IN  OBJECTIVE_TEMPLATE \o first_sentence

\* _improve_task_description without the test of line 157 that
\* chain_of_thought is not selected
_improve_task_description_unguarded(prompt, selected_techniques, custom_techniques) ==
  LET improved == Strip(prompt)
      cot == IF InList(chain_of_thought, selected_techniques)
                /\ ~Contains(Lower(improved), STEP)
                /\ ~Contains(Lower(improved), THINK)
             THEN COT_APPEND ELSE <<>>
      tot == IF InList(tree_of_thought, selected_techniques) THEN TOT_APPEND ELSE <<>>
      sc == IF InList(self_consistency, selected_techniques) THEN SC_APPEND ELSE <<>>
      systematic ==
        IF /\ Len(prompt) > TaskLongLen \/ ContainsAny(Lower(prompt), COMPLEX_WORDS)
           /\ ~Contains(Lower(prompt), STEP)
        THEN SYSTEMATIC_APPEND ELSE <<>>
  IN  improved \o cot \o tot \o sc \o systematic

_improve_task_description(prompt, selected_techniques, custom_techniques) ==
  LET improved == Strip(prompt)
      cot == IF InList(chain_of_thought, selected_techniques)
                /\ ~Contains(Lower(improved), STEP)
                /\ ~Contains(Lower(improved), THINK)
             THEN COT_APPEND ELSE <<>>
      tot == IF InList(tree_of_thought, selected_techniques) THEN TOT_APPEND ELSE <<>>
      sc == IF InList(self_consistency, selected_techniques) THEN SC_APPEND ELSE <<>>
      systematic ==
        IF /\ Len(prompt) > TaskLongLen \/ ContainsAny(Lower(prompt), COMPLEX_WORDS)
           /\ ~Contains(Lower(prompt), STEP)
           /\ ~InList(chain_of_thought, selected_techniques)
        THEN SYSTEMATIC_APPEND ELSE <<>>
  IN  improved \o cot \o tot \o sc \o systematic

\* re.findall(indicator + r'[^.]*\.', prompt, re.IGNORECASE), scanning from
\* index from: the non-overlapping matches, left to right, each stripped
RECURSIVE FindConstraints(_, _, _)
FindConstraints(prompt, indicator, from) ==
  LET lower == Lower(prompt)
      hits == {i \in from..Len(prompt) :
                 /\ StartsWithAt(lower, indicator, i)
                 /\ FindChar(prompt, {"."}, i + Len(indicator)) <= Len(prompt)}
  IN  IF hits = {} THEN <<>>
      ELSE LET i == CHOOSE k \in hits : \A j \in hits : k <= j
               e == FindChar(prompt, {"."}, i + Len(indicator))
           IN  <<Strip(SubSeq(prompt, i, e))>> \o FindConstraints(prompt, indicator, e + 1)

RECURSIVE ConstraintsFrom(_, _)
ConstraintsFrom(prompt, k) ==
  IF k > Len(constraint_indicators) THEN <<>>
  ELSE FindConstraints(prompt, constraint_indicators[k], 1) \o ConstraintsFrom(prompt, k + 1)

_extract_or_add_constraints(prompt) ==
  LET found == ConstraintsFrom(prompt, 1)
      constraints == IF found = <<>> THEN DEFAULT_CONSTRAINTS
                     ELSE AsTuple([k \in 1..Len(found) |-> BULLET \o found[k]])
  IN  Join(constraints, <<"\n">>)

_suggest_output_format(prompt) ==
  LET prompt_lower == Lower(prompt)
      hit(g) == ContainsAny(prompt_lower, OUTPUT_FORMAT_GROUPS[g].words)
  IN  IF \E g \in 1..Len(OUTPUT_FORMAT_GROUPS) : hit(g)
      THEN OUTPUT_FORMAT_GROUPS[CHOOSE g \in 1..Len(OUTPUT_FORMAT_GROUPS) :
                                  hit(g) /\ \A h \in 1..(g-1) : ~hit(h)].text
      ELSE OUTPUT_FORMAT_DEFAULT

\* the lines of table (pairs <<key, line>>) whose key is selected, in table order
RECURSIVE GuidanceLines(_, _, _)
GuidanceLines(table, selected, k) ==
  IF k > Len(table) THEN <<>>
  ELSE (IF InList(table[k][1], selected) THEN <<table[k][2]>> ELSE <<>>)
       \o GuidanceLines(table, selected, k + 1)

_get_technique_specific_guidance(selected_techniques, custom_techniques) ==
  IF selected_techniques = <<auto>> /\ custom_techniques = <<>> THEN <<>>
  ELSE LET guidance ==
             GuidanceLines(TECHNIQUE_GUIDANCE, selected_techniques, 1)
             \o (IF custom_techniques # <<>>
                 THEN <<CUSTOM_GUIDANCE_PREFIX \o custom_techniques>> ELSE <<>>)
       IN  Join(guidance, <<"\n">>)

\* _get_tool_specific_guidance with the line of every tool appended, as if
\* the branches of lines 235-244 were not exclusive
_get_tool_specific_guidance_all(selected_tool) ==
  IF ~Truthy(selected_tool) \/ EqualsStr(selected_tool, unspecified) THEN <<>>
  ELSE Join([k \in 1..Len(TOOL_GUIDANCE) |-> TOOL_GUIDANCE[k][2]] \o <<>>, <<"\n">>)

_get_tool_specific_guidance(selected_tool) ==
  IF ~Truthy(selected_tool) \/ EqualsStr(selected_tool, unspecified) THEN <<>>
  ELSE LET guidance ==
             IF selected_tool.isList THEN <<>>
             ELSE GuidanceLines(TOOL_GUIDANCE, <<selected_tool.str>>, 1)
       IN  Join(guidance, <<"\n">>)

\* What a call does: it returns the dict {refined_prompt, rationale} or raises
Return(refined_prompt, rationale) ==
  [kind |-> "return", refined_prompt |-> refined_prompt, rationale |-> rationale,
   error |-> "none"]
Raise(error) ==
  [kind |-> "raise", refined_prompt |-> <<>>, rationale |-> <<>>, error |-> error]

\* an optional list element: <<x>> when cond, else nothing
When(cond, x) == IF cond THEN <<x>> ELSE <<>>

\* refined_sections of _heuristic_refine, in the order they are appended
refined_sections(original_prompt, selected_tool, selected_techniques, custom_techniques) ==
  LET analysis == _analyze_prompt(original_prompt)
      objective == _extract_or_create_objective(original_prompt)
      main_task == _improve_task_description(original_prompt, selected_techniques, custom_techniques)
      constraints == _extract_or_add_constraints(original_prompt)
      technique_guidance == _get_technique_specific_guidance(selected_techniques, custom_techniques)
      tool_guidance == _get_tool_specific_guidance(selected_tool)
  IN  When(~analysis.has_role, ROLE_SECTION)
      \o <<OBJECTIVE_LABEL \o objective>>
      \o <<TASK_LABEL \o main_task>>
      \o When(constraints # <<>>, REQUIREMENTS_LABEL \o constraints)
      \o When(technique_guidance # <<>>, TECHNIQUE_LABEL \o technique_guidance)
      \o When(tool_guidance # <<>>, TOOL_LABEL \o tool_guidance)
      \o When(~analysis.has_output_format,
              OUTPUT_FORMAT_LABEL \o _suggest_output_format(original_prompt))
      \o <<SELF_CHECK_SECTION>>

\* improvements of _heuristic_refine, in the order they are appended
improvements(original_prompt, selected_tool, selected_techniques, custom_techniques) ==
  LET analysis == _analyze_prompt(original_prompt)
  IN  When(~analysis.has_role, IMPROVED_ROLE)
      \o When(~analysis.has_clear_objective, IMPROVED_OBJECTIVE)
      \o When(_extract_or_add_constraints(original_prompt) # <<>>, IMPROVED_REQUIREMENTS)
      \o When(_get_technique_specific_guidance(selected_techniques, custom_techniques) # <<>>,
              IMPROVED_TECHNIQUES)
      \o When(_get_tool_specific_guidance(selected_tool) # <<>>, IMPROVED_TOOL)
      \o When(~analysis.has_output_format, IMPROVED_OUTPUT_FORMAT)
      \o <<IMPROVED_SELF_CHECK>>

\* ', '.join(t.replace('_', ' ').title() for t in selected_techniques if t != 'auto')
technique_names(selected_techniques) ==
  LET named == SelectSeq(selected_techniques, LAMBDA t : t # auto)
  IN  Join(AsTuple([k \in 1..Len(named) |-> Title(ReplaceChar(named[k], "_", " "))]),
           <<",", " ">>)

\* rationale of _heuristic_refine; selected_tool is a str here
heuristic_rationale(original_prompt, selected_tool, selected_techniques, custom_techniques) ==
  LET names == technique_names(selected_techniques)
      rationale_parts ==
        When(~EqualsStr(selected_tool, unspecified),
             RATIONALE_TOOL_PREFIX \o Title(selected_tool.str))
        \o When(names # <<>>, RATIONALE_USING \o names \o RATIONALE_TECHNIQUES_SUFFIX)
        \o When(custom_techniques # <<>>, RATIONALE_CUSTOM_PREFIX \o custom_techniques)
  IN  RATIONALE_BASE
      \o (IF rationale_parts # <<>> THEN <<" ">> \o Join(rationale_parts, RATIONALE_AND) ELSE <<>>)
      \o <<":", " ">>
      \o Join(improvements(original_prompt, selected_tool, selected_techniques, custom_techniques),
              <<",", " ">>)
      \o RATIONALE_CLOSING

\* _heuristic_refine.  A list has no title(): with a list as selected_tool,
\* which never equals 'unspecified', line 87 raises AttributeError.
_heuristic_refine(original_prompt, selected_tool, selected_techniques, custom_techniques) ==
  IF selected_tool.isList THEN Raise("AttributeError")
  ELSE Return(Join(refined_sections(original_prompt, selected_tool, selected_techniques,
                                    custom_techniques), SECTION_SEPARATOR),
              heuristic_rationale(original_prompt, selected_tool, selected_techniques,
                                  custom_techniques))

---------------------------------------------------------------------------
(* json.loads, as services/llm_client.py uses it: the decoder of the Python *)
(* standard library on a str.  A decoded value is a record: t is its Python *)
(* type, s the text of a str or number, keys and items the keys and values  *)
(* of a dict in insertion order, items the elements of a list.              *)

PyStr(s) == [t |-> "str", s |-> s, keys |-> <<>>, items |-> <<>>]
PyNum(s) == [t |-> "num", s |-> s, keys |-> <<>>, items |-> <<>>]
PyConst(name) == [t |-> name, s |-> <<>>, keys |-> <<>>, items |-> <<>>]
PyList(items) == [t |-> "list", s |-> <<>>, keys |-> <<>>, items |-> items]
PyDict(keys, items) == [t |-> "dict", s |-> <<>>, keys |-> keys, items |-> items]

Parsed(val, next) == [ok |-> TRUE, val |-> val, next |-> next]
\* json.JSONDecodeError
DecodeError == [ok |-> FALSE, val |-> PyConst("None"), next |-> 0]

DIGITS == {"0", "1", "2", "3", "4", "5", "6", "7", "8", "9"}
JSON_WHITESPACE == {" ", "\t", "\n", "\r"}
\* the simple escapes of a JSON string: the character after the backslash
\* and the character it stands for
JSON_ESCAPES == << <<"\"", "\"">>, <<"\\", "\\">>, <<"/", "/">>, <<"n", "\n">>, <<"t", "\t">> >>
\* the literal names and the Python value of each
JSON_NAMES ==
  << << <<"n", "u", "l", "l">>, "None" >>,
     << <<"t", "r", "u", "e">>, "True" >>,
     << <<"f", "a", "l", "s", "e">>, "False" >> >>

\* the least index >= i that holds no JSON whitespace, Len(s) + 1 when none
SkipWhitespace(s, i) ==
  IF \E k \in i..Len(s) : s[k] \notin JSON_WHITESPACE
  THEN CHOOSE k \in i..Len(s) :
         s[k] \notin JSON_WHITESPACE /\ \A j \in i..(k-1) : s[j] \in JSON_WHITESPACE
  ELSE Len(s) + 1

\* the str that starts after the quote before index j: acc is what was read
RECURSIVE ScanString(_, _, _)
ScanString(s, j, acc) ==
  IF j > Len(s) THEN DecodeError
  ELSE IF s[j] = "\"" THEN Parsed(PyStr(acc), j + 1)
  ELSE IF s[j] = "\\"
       THEN IF j + 1 <= Len(s) /\ \E e \in 1..Len(JSON_ESCAPES) : JSON_ESCAPES[e][1] = s[j + 1]
            THEN LET e == CHOOSE k \in 1..Len(JSON_ESCAPES) : JSON_ESCAPES[k][1] = s[j + 1]
                 IN  ScanString(s, j + 2, Append(acc, JSON_ESCAPES[e][2]))
            ELSE DecodeError
  ELSE IF s[j] \in {"\n", "\t", "\r"} THEN DecodeError   \* a control character
  ELSE ScanString(s, j + 1, Append(acc, s[j]))

\* an integer: -?(0|[1-9][0-9]*)
ScanNumber(s, i) ==
  LET d == IF s[i] = "-" THEN i + 1 ELSE i
      end == IF \E k \in d..Len(s) : s[k] \notin DIGITS
             THEN CHOOSE k \in d..Len(s) :
                    s[k] \notin DIGITS /\ \A j \in d..(k-1) : s[j] \in DIGITS
             ELSE Len(s) + 1
  IN  IF end = d THEN DecodeError
      ELSE IF s[d] = "0" THEN Parsed(PyNum(SubSeq(s, i, d)), d + 1)
      ELSE Parsed(PyNum(SubSeq(s, i, end - 1)), end)

\* dict[key] = value: a repeated key keeps its place and takes the new value
SetItem(keys, items, key, value) ==
  IF InList(key, keys)
  THEN <<keys, [k \in 1..Len(items) |-> IF keys[k] = key THEN value ELSE items[k]]>>
  ELSE <<Append(keys, key), Append(items, value)>>

RECURSIVE ParseValue(_, _)
RECURSIVE ParseMembers(_, _, _, _)
RECURSIVE ParseElements(_, _, _)

\* the value that starts at index i
ParseValue(s, i) ==
  IF i > Len(s) THEN DecodeError
  ELSE IF s[i] = "\"" THEN ScanString(s, i + 1, <<>>)
  ELSE IF s[i] = "{"
       THEN LET j == SkipWhitespace(s, i + 1)
            IN  IF j <= Len(s) /\ s[j] = "}" THEN Parsed(PyDict(<<>>, <<>>), j + 1)
                ELSE ParseMembers(s, j, <<>>, <<>>)
  ELSE IF s[i] = "["
       THEN LET j == SkipWhitespace(s, i + 1)
            IN  IF j <= Len(s) /\ s[j] = "]" THEN Parsed(PyList(<<>>), j + 1)
                ELSE ParseElements(s, j, <<>>)
  ELSE IF \E n \in 1..Len(JSON_NAMES) : StartsWithAt(s, JSON_NAMES[n][1], i)
       THEN LET n == CHOOSE k \in 1..Len(JSON_NAMES) : StartsWithAt(s, JSON_NAMES[k][1], i)
            IN  Parsed(PyConst(JSON_NAMES[n][2]), i + Len(JSON_NAMES[n][1]))
  ELSE IF s[i] \in DIGITS \cup {"-"} THEN ScanNumber(s, i)
  ELSE DecodeError

\* the members of an object from the key at index j on; keys and items are
\* those read so far
ParseMembers(s, j, keys, items) ==
  IF j > Len(s) \/ s[j] # "\"" THEN DecodeError
  ELSE LET key == ScanString(s, j + 1, <<>>)
           colon == SkipWhitespace(s, key.next)
           value == ParseValue(s, SkipWhitespace(s, colon + 1))
           after == SkipWhitespace(s, value.next)
           dict == SetItem(keys, items, key.val.s, value.val)
       IN  IF ~key.ok THEN DecodeError
           ELSE IF colon > Len(s) \/ s[colon] # ":" THEN DecodeError
           ELSE IF ~value.ok \/ after > Len(s) THEN DecodeError
           ELSE IF s[after] = "}" THEN Parsed(PyDict(dict[1], dict[2]), after + 1)
           ELSE IF s[after] = ","
                THEN ParseMembers(s, SkipWhitespace(s, after + 1), dict[1], dict[2])
           ELSE DecodeError

\* the elements of an array from the value at index j on
ParseElements(s, j, items) ==
  LET value == ParseValue(s, j)
      after == SkipWhitespace(s, value.next)
  IN  IF ~value.ok \/ after > Len(s) THEN DecodeError
      ELSE IF s[after] = "]" THEN Parsed(PyList(Append(items, value.val)), after + 1)
      ELSE IF s[after] = ","
           THEN ParseElements(s, SkipWhitespace(s, after + 1), Append(items, value.val))
      ELSE DecodeError

\* the decoded value if nothing but whitespace follows it
WholeDocument(s, value) ==
  IF value.ok /\ SkipWhitespace(s, value.next) > Len(s) THEN value ELSE DecodeError

\* json.loads(s): one value, with whitespace around it and nothing else
json_loads(s) == WholeDocument(s, ParseValue(s, SkipWhitespace(s, 1)))

\* whether  key in v  raises TypeError: v is not a container
InRaises(v) == v.t \notin {"dict", "list", "str"}

\* key in v: a key of a dict, an element of a list, a substring of a str
PyIn(key, v) ==
  CASE v.t = "dict" -> InList(key, v.keys)
    [] v.t = "list" -> \E k \in 1..Len(v.items) : v.items[k] = PyStr(key)
    [] v.t = "str" -> Contains(v.s, key)
    [] OTHER -> FALSE

\* dict[key], for a key of the dict
GetItem(v, key) == v.items[CHOOSE k \in 1..Len(v.keys) : v.keys[k] = key]

---------------------------------------------------------------------------
(* services/llm_client.py: LLMClient *)

\* What chat.completions.create does when called: it raises (timeout, auth,
\* quota, malformed request), or it returns a response whose message content
\* is None or a str
ApiRaises == [kind |-> "raise", content |-> <<>>]
ApiNoContent == [kind |-> "none", content |-> <<>>]
ApiContent(text) == [kind |-> "content", content |-> text]

\* _init_openai without the test of line 17 that the key is set
_init_openai_unchecked(key, ok) == IF ok THEN "client" ELSE "None"

\* _init_openai: the client exists when the key is set and OpenAI(...) does
\* not raise
_init_openai(key, ok) == IF key = "set" /\ ok THEN "client" ELSE "None"

has_llm_available(client) == client # "None"

\* What a call of refine_with_llm did: its outcome and the API calls it made
Did(outcome, n) == [outcome |-> outcome, api_calls |-> n]

\* lines 138-141: the two fields stripped; strip() exists on a str only
strip_fields(refined, why) ==
  IF refined.t = "str" /\ why.t = "str"
  THEN Return(Strip(refined.s), Strip(why.s))
  ELSE Raise("An unexpected error occurred while processing the response.")

\* lines 132-160 after json.loads: decoded is what it gave
validate_response(response_text, decoded) ==
  IF ~decoded.ok THEN Return(Strip(response_text), LLM_FALLBACK_RATIONALE)
  ELSE IF InRaises(decoded.val)
       THEN Raise("An unexpected error occurred while processing the response.")
  ELSE IF PyIn(REFINED_PROMPT_KEY, decoded.val) /\ PyIn(RATIONALE_KEY, decoded.val)
       THEN IF decoded.val.t # "dict"
            THEN Raise("An unexpected error occurred while processing the response.")
            ELSE strip_fields(GetItem(decoded.val, REFINED_PROMPT_KEY),
                              GetItem(decoded.val, RATIONALE_KEY))
  ELSE Return(Strip(response_text), LLM_FALLBACK_RATIONALE)

\* lines 132-160: the response text decoded and validated
parse_response(response_text) == validate_response(response_text, json_loads(response_text))

\* lines 162-164: whatever was raised inside the outer try leaves as
\* "OpenAI API error"
after_response(parsed) ==
  IF parsed.kind = "raise"
  THEN Did(Raise("OpenAI API error: unexpected"), 1)
  ELSE Did(parsed, 1)

\* refine_with_llm.  Line 88 calls selected_tool.title() outside any try: a
\* non-empty list raises AttributeError before the API is called.
refine_with_llm(client, original_prompt, selected_tool, selected_techniques, custom_techniques, behaviour) ==
  IF Truthy(selected_tool) /\ ~EqualsStr(selected_tool, unspecified) /\ selected_tool.isList
  THEN Did(Raise("AttributeError"), 0)
  ELSE IF client = "None" THEN Did(Raise("OpenAI client not available"), 0)
  ELSE IF behaviour.kind = "raise" THEN Did(Raise("OpenAI API error: call failed"), 1)
  ELSE IF behaviour.kind = "none" THEN Did(Raise("OpenAI API error: no content"), 1)
  ELSE after_response(parse_response(Strip(behaviour.content)))

---------------------------------------------------------------------------
(* services/refiner.py: PromptRefiner.refine_prompt *)

\* What a call of refine_prompt did: its outcome, what refine_with_llm did
\* if it was called, and the API calls made
NotCalled == [kind |-> "none", refined_prompt |-> <<>>, rationale |-> <<>>, error |-> "none"]

\* lines 12-13 with the selection dropped: always ['auto']
default_techniques_always(selected_techniques) == <<auto>>

\* lines 12-13: not selected_techniques
default_techniques(selected_techniques) ==
  IF selected_techniques = <<>> THEN <<auto>> ELSE selected_techniques

\* lines 20-32 without the try/except: what refine_with_llm raises leaves
\* refine_prompt
try_llm_first_uncaught(client, llm, heuristic) ==
  IF has_llm_available(client)
  THEN [outcome |-> llm.outcome, llm |-> llm.outcome, api_calls |-> llm.api_calls]
  ELSE [outcome |-> heuristic, llm |-> NotCalled, api_calls |-> 0]

\* lines 20-32: llm is what refine_with_llm does when called, heuristic what
\* _heuristic_refine does when called
try_llm_first(client, llm, heuristic) ==
  IF has_llm_available(client)
  THEN IF llm.outcome.kind = "return"
       THEN [outcome |-> llm.outcome, llm |-> llm.outcome, api_calls |-> llm.api_calls]
       ELSE [outcome |-> heuristic, llm |-> llm.outcome, api_calls |-> llm.api_calls]
  ELSE [outcome |-> heuristic, llm |-> NotCalled, api_calls |-> 0]

refine_prompt(client, original_prompt, selected_tool, selected_techniques, custom_techniques, behaviour) ==
  try_llm_first(client,
                refine_with_llm(client, original_prompt, selected_tool,
                                default_techniques(selected_techniques),
                                custom_techniques, behaviour),
                _heuristic_refine(original_prompt, selected_tool,
                                  default_techniques(selected_techniques),
                                  custom_techniques))

---------------------------------------------------------------------------
(* Inputs *)

\* ['You are', 'ACT AS', 'role:', 'as a', 'Format:', 'structure:', 'output:', 'return', 'Step', 'think', 'Analyze', 'must', ' ', '.']
PROMPT_FRAGMENTS ==
  << <<"Y", "o", "u", " ", "a", "r", "e">>,
     <<"A", "C", "T", " ", "A", "S">>,
     <<"r", "o", "l", "e", ":">>,
     <<"a", "s", " ", "a">>,
     <<"F", "o", "r", "m", "a", "t", ":">>,
     <<"s", "t", "r", "u", "c", "t", "u", "r", "e", ":">>,
     <<"o", "u", "t", "p", "u", "t", ":">>,
     <<"r", "e", "t", "u", "r", "n">>,
     <<"S", "t", "e", "p">>,
     <<"t", "h", "i", "n", "k">>,
     <<"A", "n", "a", "l", "y", "z", "e">>,
     <<"m", "u", "s", "t">>,
     <<" ">>,
     <<".">> >>
\* ['Write a poem about the sea.', 'You are a poet. Objective: write verse. Output: plain text.', 'create', 'develop', 'Design', 'goal: win. You should ensure x. ', 'think about a design']
SAMPLE_PROMPTS ==
  << <<"W", "r", "i", "t", "e", " ", "a", " ", "p", "o", "e", "m", " ", "a", "b", "o", "u", "t", " ", "t", "h", "e", " ", "s", "e", "a", ".">>,
     <<"Y", "o", "u", " ", "a", "r", "e", " ", "a", " ", "p", "o", "e", "t", ".", " ", "O", "b", "j", "e", "c", "t", "i", "v", "e", ":", " ", "w", "r", "i", "t", "e", " ", "v", "e", "r", "s", "e", ".", " ", "O", "u", "t", "p", "u", "t", ":", " ", "p", "l", "a", "i", "n", " ", "t", "e", "x", "t", ".">>,
     <<"c", "r", "e", "a", "t", "e">>,
     <<"d", "e", "v", "e", "l", "o", "p">>,
     <<"D", "e", "s", "i", "g", "n">>,
     <<"g", "o", "a", "l", ":", " ", "w", "i", "n", ".", " ", "Y", "o", "u", " ", "s", "h", "o", "u", "l", "d", " ", "e", "n", "s", "u", "r", "e", " ", "x", ".", " ">>,
     <<"t", "h", "i", "n", "k", " ", "a", "b", "o", "u", "t", " ", "a", " ", "d", "e", "s", "i", "g", "n">> >>
\* ['chatgpt', 'gemini', 'claude', 'perplexity', 'copilot', 'unspecified', '', 'my-tool']
TOOLS ==
  << <<"c", "h", "a", "t", "g", "p", "t">>,
     <<"g", "e", "m", "i", "n", "i">>,
     <<"c", "l", "a", "u", "d", "e">>,
     <<"p", "e", "r", "p", "l", "e", "x", "i", "t", "y">>,
     <<"c", "o", "p", "i", "l", "o", "t">>,
     <<"u", "n", "s", "p", "e", "c", "i", "f", "i", "e", "d">>,
     <<>>,
     <<"m", "y", "-", "t", "o", "o", "l">> >>
\* ['chain_of_thought', 'tree_of_thought', 'one_shot', 'few_shot', 'self_consistency', 'instruct_reasoning', 'instruct_search', 'auto']
TECHNIQUES ==
  << <<"c", "h", "a", "i", "n", "_", "o", "f", "_", "t", "h", "o", "u", "g", "h", "t">>,
     <<"t", "r", "e", "e", "_", "o", "f", "_", "t", "h", "o", "u", "g", "h", "t">>,
     <<"o", "n", "e", "_", "s", "h", "o", "t">>,
     <<"f", "e", "w", "_", "s", "h", "o", "t">>,
     <<"s", "e", "l", "f", "_", "c", "o", "n", "s", "i", "s", "t", "e", "n", "c", "y">>,
     <<"i", "n", "s", "t", "r", "u", "c", "t", "_", "r", "e", "a", "s", "o", "n", "i", "n", "g">>,
     <<"i", "n", "s", "t", "r", "u", "c", "t", "_", "s", "e", "a", "r", "c", "h">>,
     <<"a", "u", "t", "o">> >>
\* ['', 'role play']
CUSTOM_TECHNIQUES ==
  << <<>>,
     <<"r", "o", "l", "e", " ", "p", "l", "a", "y">> >>

MaxFragments == 2
MaxTechniques == 2
MaxCalls == 2

\* a prompt longer than TaskLongLen
LongFiller == [i \in 1..(TaskLongLen + 1) |-> "x"]

\* the concatenations of at most n fragments
RECURSIVE PromptsOf(_)
PromptsOf(n) ==
  IF n = 0 THEN {<<>>}
  ELSE PromptsOf(n - 1)
       \cup {p \o PROMPT_FRAGMENTS[f] : p \in PromptsOf(n - 1), f \in 1..Len(PROMPT_FRAGMENTS)}

SamplePrompts == {SAMPLE_PROMPTS[k] : k \in 1..Len(SAMPLE_PROMPTS)}

Prompts ==
  PromptsOf(MaxFragments) \cup SamplePrompts
  \cup {LongFiller, LongFiller \o PROMPT_FRAGMENTS[10], PROMPT_FRAGMENTS[9] \o LongFiller}

\* the selections of at most n techniques, in the order the form lists them
RECURSIVE TechniqueListsOf(_, _)
TechniqueListsOf(n, from) ==
  IF n = 0 \/ from > Len(TECHNIQUES) THEN {<<>>}
  ELSE TechniqueListsOf(n, from + 1)
       \cup {<<TECHNIQUES[from]>> \o l : l \in TechniqueListsOf(n - 1, from + 1)}

TechniqueLists ==
  TechniqueListsOf(MaxTechniques, 1)
  \cup {<<chain_of_thought, tree_of_thought, self_consistency>>,
        <<self_consistency, chain_of_thought>>}

Request(original_prompt, selected_tool, selected_techniques, custom_techniques) ==
  [original_prompt |-> original_prompt, selected_tool |-> selected_tool,
   selected_techniques |-> selected_techniques, custom_techniques |-> custom_techniques]

StrTools == {StrVal(TOOLS[t]) : t \in 1..Len(TOOLS)}
Customs == {CUSTOM_TECHNIQUES[c] : c \in 1..Len(CUSTOM_TECHNIQUES)}

\* a few prompts with every selection, and every prompt with a few selections
BasePrompts == {SAMPLE_PROMPTS[1], SAMPLE_PROMPTS[2], SAMPLE_PROMPTS[7]}
BaseSelections ==
  {<<StrVal(unspecified), <<auto>>, CUSTOM_TECHNIQUES[1]>>,
   <<StrVal(TOOLS[2]), <<chain_of_thought>>, CUSTOM_TECHNIQUES[1]>>,
   <<StrVal(TOOLS[8]), <<chain_of_thought, tree_of_thought, self_consistency>>, CUSTOM_TECHNIQUES[2]>>,
   <<StrVal(TOOLS[1]), <<tree_of_thought, self_consistency>>, CUSTOM_TECHNIQUES[1]>>}

HeuristicRequests ==
  {Request(p, s[1], s[2], s[3]) : p \in Prompts, s \in BaseSelections}
  \cup {Request(p, t, l, c) : p \in BasePrompts, t \in StrTools, l \in TechniqueLists, c \in Customs}

\* responses of the API: objects with the two fields as str
\* ['{"refined_prompt": "Do X", "rationale": "Why"}', '{"rationale": "Why ", "refined_prompt": " Do X\\n", "extra": [1, {"a": true}]}']
VALID_RESPONSES ==
  << <<"{", "\"", "r", "e", "f", "i", "n", "e", "d", "_", "p", "r", "o", "m", "p", "t", "\"", ":", " ", "\"", "D", "o", " ", "X", "\"", ",", " ", "\"", "r", "a", "t", "i", "o", "n", "a", "l", "e", "\"", ":", " ", "\"", "W", "h", "y", "\"", "}">>,
     <<"{", "\"", "r", "a", "t", "i", "o", "n", "a", "l", "e", "\"", ":", " ", "\"", "W", "h", "y", " ", "\"", ",", " ", "\"", "r", "e", "f", "i", "n", "e", "d", "_", "p", "r", "o", "m", "p", "t", "\"", ":", " ", "\"", " ", "D", "o", " ", "X", "\\", "n", "\"", ",", " ", "\"", "e", "x", "t", "r", "a", "\"", ":", " ", "[", "1", ",", " ", "{", "\"", "a", "\"", ":", " ", "t", "r", "u", "e", "}", "]", "}">> >>
\* responses of the API that are no such object
\* ['{"refined_prompt": "Do X"}', '{"refined_prompt": 1, "rationale": "Why"}', '{"refined_prompt": "Do X", "rationale": null}', '[1, 2]', '42', 'null', '"just a string"', '"refined_prompt rationale"', '["refined_prompt", "rationale"]', 'Here is your prompt', '', '{"refined_prompt": "", "rationale": ""}', '{}']
MALFORMED_RESPONSES ==
  << <<"{", "\"", "r", "e", "f", "i", "n", "e", "d", "_", "p", "r", "o", "m", "p", "t", "\"", ":", " ", "\"", "D", "o", " ", "X", "\"", "}">>,
     <<"{", "\"", "r", "e", "f", "i", "n", "e", "d", "_", "p", "r", "o", "m", "p", "t", "\"", ":", " ", "1", ",", " ", "\"", "r", "a", "t", "i", "o", "n", "a", "l", "e", "\"", ":", " ", "\"", "W", "h", "y", "\"", "}">>,
     <<"{", "\"", "r", "e", "f", "i", "n", "e", "d", "_", "p", "r", "o", "m", "p", "t", "\"", ":", " ", "\"", "D", "o", " ", "X", "\"", ",", " ", "\"", "r", "a", "t", "i", "o", "n", "a", "l", "e", "\"", ":", " ", "n", "u", "l", "l", "}">>,
     <<"[", "1", ",", " ", "2", "]">>,
     <<"4", "2">>,
     <<"n", "u", "l", "l">>,
     <<"\"", "j", "u", "s", "t", " ", "a", " ", "s", "t", "r", "i", "n", "g", "\"">>,
     <<"\"", "r", "e", "f", "i", "n", "e", "d", "_", "p", "r", "o", "m", "p", "t", " ", "r", "a", "t", "i", "o", "n", "a", "l", "e", "\"">>,
     <<"[", "\"", "r", "e", "f", "i", "n", "e", "d", "_", "p", "r", "o", "m", "p", "t", "\"", ",", " ", "\"", "r", "a", "t", "i", "o", "n", "a", "l", "e", "\"", "]">>,
     <<"H", "e", "r", "e", " ", "i", "s", " ", "y", "o", "u", "r", " ", "p", "r", "o", "m", "p", "t">>,
     <<>>,
     <<"{", "\"", "r", "e", "f", "i", "n", "e", "d", "_", "p", "r", "o", "m", "p", "t", "\"", ":", " ", "\"", "\"", ",", " ", "\"", "r", "a", "t", "i", "o", "n", "a", "l", "e", "\"", ":", " ", "\"", "\"", "}">>,
     <<"{", "}">> >>
\* '```json\n'
FENCE_OPEN_JSON == <<"<backtick>", "<backtick>", "<backtick>", "j", "s", "o", "n", "\n">>
\* '```\n'
FENCE_OPEN == <<"<backtick>", "<backtick>", "<backtick>", "\n">>
\* '\n```'
FENCE_CLOSE == <<"\n", "<backtick>", "<backtick>", "<backtick>">>
\* ['', '  ', ' Write a poem about the sea. ']
FORM_PROMPTS ==
  << <<>>,
     <<" ", " ">>,
     <<" ", "W", "r", "i", "t", "e", " ", "a", " ", "p", "o", "e", "m", " ", "a", "b", "o", "u", "t", " ", "t", "h", "e", " ", "s", "e", "a", ".", " ">> >>
\* ' role play '
FORM_CUSTOM == <<" ", "r", "o", "l", "e", " ", "p", "l", "a", "y", " ">>

PromptMaxLen == 5000
MaxTime == 2

ValidResponses == {VALID_RESPONSES[k] : k \in 1..Len(VALID_RESPONSES)}
MalformedResponses == {MALFORMED_RESPONSES[k] : k \in 1..Len(MALFORMED_RESPONSES)}

\* a response wrapped in a fenced code block, with and without the language tag
Fenced(text) == {FENCE_OPEN_JSON \o text \o FENCE_CLOSE, FENCE_OPEN \o text \o FENCE_CLOSE}

ApiBehaviours ==
  {ApiRaises, ApiNoContent}
  \cup {ApiContent(t) : t \in ValidResponses \cup MalformedResponses}
  \cup {ApiContent(<<" ">> \o t \o <<"\n">>) : t \in ValidResponses}
  \cup {ApiContent(f) : f \in UNION {Fenced(t) : t \in ValidResponses}}

CoreSelections ==
  BaseSelections
  \cup {<<StrVal(<<>>), <<>>, CUSTOM_TECHNIQUES[1]>>,
        <<StrVal(unspecified), <<>>, CUSTOM_TECHNIQUES[2]>>}

CoreRequests ==
  {Request(p, s[1], s[2], s[3]) : p \in BasePrompts, s \in CoreSelections}

\* a prompt longer than PromptMaxLen
TooLong == [i \in 1..(PromptMaxLen + 1) |-> "x"]

\* the fields of a /refine form: prompt, ai_tools, prompt_techniques,
\* custom_techniques; a field that is missing reads as '' or []
Forms ==
  {Request(p, ListVal(t), l, c) :
     p \in {FORM_PROMPTS[k] : k \in 1..Len(FORM_PROMPTS)},
     t \in {<<>>, <<unspecified>>, <<TOOLS[2]>>},
     l \in {<<>>, <<auto>>},
     c \in {<<>>, FORM_CUSTOM}}
  \cup {Request(TooLong, ListVal(<<>>), <<>>, <<>>)}

FormBehaviours ==
  {ApiRaises, ApiContent(VALID_RESPONSES[1]), ApiContent(MALFORMED_RESPONSES[11])}

---------------------------------------------------------------------------
(* app.py: the /refine and /download handlers *)

\* the parts of the file /download builds, around timestamp, original, refined, rationale
\* ['# Refined Prompt\nGenerated on: ', '\n\n## Original Prompt:\n', '\n\n## Refined Prompt:\n', '\n\n## Rationale:\n', '\n']
DOWNLOAD_PARTS ==
  << <<"#", " ", "R", "e", "f", "i", "n", "e", "d", " ", "P", "r", "o", "m", "p", "t", "\n", "G", "e", "n", "e", "r", "a", "t", "e", "d", " ", "o", "n", ":", " ">>,
     <<"\n", "\n", "#", "#", " ", "O", "r", "i", "g", "i", "n", "a", "l", " ", "P", "r", "o", "m", "p", "t", ":", "\n">>,
     <<"\n", "\n", "#", "#", " ", "R", "e", "f", "i", "n", "e", "d", " ", "P", "r", "o", "m", "p", "t", ":", "\n">>,
     <<"\n", "\n", "#", "#", " ", "R", "a", "t", "i", "o", "n", "a", "l", "e", ":", "\n">>,
     <<"\n">> >>

DIGIT_CHARS == <<"0", "1", "2", "3", "4", "5", "6", "7", "8", "9">>

\* datetime.now().isoformat() at clock tick n
isoformat(n) == <<"T", DIGIT_CHARS[n + 1]>>

NoRecord ==
  [exists |-> FALSE, original |-> <<>>, refined |-> <<>>, rationale |-> <<>>, timestamp |-> <<>>]
\* session['last_refined'] as /refine stores it
last_refined(original_prompt, result, n) ==
  [exists |-> TRUE, original |-> original_prompt, refined |-> result.refined_prompt,
   rationale |-> result.rationale, timestamp |-> isoformat(n)]

\* the JSON body {'error': message} of a 400 or 500 answer
ErrorBody(message) ==
  [kind |-> "error", refined_prompt |-> <<>>, rationale |-> <<>>, error |-> message]

\* the text of the file /download answers
download_content(refined_data) ==
  DOWNLOAD_PARTS[1] \o refined_data.timestamp
  \o DOWNLOAD_PARTS[2] \o refined_data.original
  \o DOWNLOAD_PARTS[3] \o refined_data.refined
  \o DOWNLOAD_PARTS[4] \o refined_data.rationale
  \o DOWNLOAD_PARTS[5]

---------------------------------------------------------------------------
(* services/llm_client.py: LLMClient._detect_language.  A character that  *)
(* is not ASCII is written <U+XXXX>, XXXX its code point.                  *)

\* lines 34-43: the classes searched in text.lower(), in the order of the
\* elif chain: [U+00E4 U+00F6 U+00FC U+00DF] for German, and so on
LETTER_GROUPS ==
  <<
     [language |-> "German",
      chars |-> {"<U+00E4>", "<U+00F6>", "<U+00FC>", "<U+00DF>"}],
     [language |-> "French",
      chars |-> {"<U+00E0>", "<U+00E2>", "<U+00E4>", "<U+00E7>", "<U+00E9>", "<U+00E8>", "<U+00EA>", "<U+00EB>", "<U+00EF>", "<U+00EE>", "<U+00F4>", "<U+00F9>", "<U+00FB>", "<U+00FC>", "<U+00FF>", "<U+00F1>", "<U+00E6>", "<U+0153>"}],
     [language |-> "Spanish",
      chars |-> {"<U+00E1>", "<U+00E9>", "<U+00ED>", "<U+00F3>", "<U+00FA>", "<U+00FC>", "<U+00F1>", "<U+00BF>", "<U+00A1>"}],
     [language |-> "Italian",
      chars |-> {"<U+00E0>", "<U+00E8>", "<U+00E9>", "<U+00EC>", "<U+00ED>", "<U+00EE>", "<U+00F2>", "<U+00F3>", "<U+00F9>", "<U+00FA>"}],
     [language |-> "Polish",
      chars |-> {"<U+0105>", "<U+0107>", "<U+0119>", "<U+0142>", "<U+0144>", "<U+00F3>", "<U+015B>", "<U+017A>", "<U+017C>"}]
  >>
\* lines 44-51: the classes searched in text, in the order of the elif
\* chain, each range as <<first, last>> code point: U+4E00 to U+9FFF for
\* Chinese, U+3040 to U+309F and U+30A0 to U+30FF for Japanese, U+AC00 to
\* U+D7AF for Korean, U+0400 to U+04FF for Russian
RANGE_GROUPS ==
  <<
     [language |-> "Chinese", ranges |-> {<<19968, 40959>>}],
     [language |-> "Japanese", ranges |-> {<<12352, 12447>>, <<12448, 12543>>}],
     [language |-> "Korean", ranges |-> {<<44032, 55215>>}],
     [language |-> "Russian", ranges |-> {<<1024, 1279>>}]
  >>
\* ord(c) of the characters written <U+XXXX>; a character written as
\* itself is below U+0080
CODE_POINTS ==
  <<<<"<U+00A1>", 161>>, <<"<U+00BF>", 191>>, <<"<U+00C4>", 196>>, <<"<U+00C9>", 201>>,
    <<"<U+00DF>", 223>>, <<"<U+00E0>", 224>>, <<"<U+00E1>", 225>>, <<"<U+00E2>", 226>>,
    <<"<U+00E4>", 228>>, <<"<U+00E6>", 230>>, <<"<U+00E7>", 231>>, <<"<U+00E8>", 232>>,
    <<"<U+00E9>", 233>>, <<"<U+00EA>", 234>>, <<"<U+00EB>", 235>>, <<"<U+00EC>", 236>>,
    <<"<U+00ED>", 237>>, <<"<U+00EE>", 238>>, <<"<U+00EF>", 239>>, <<"<U+00F1>", 241>>,
    <<"<U+00F2>", 242>>, <<"<U+00F3>", 243>>, <<"<U+00F4>", 244>>, <<"<U+00F6>", 246>>,
    <<"<U+00F8>", 248>>, <<"<U+00F9>", 249>>, <<"<U+00FA>", 250>>, <<"<U+00FB>", 251>>,
    <<"<U+00FC>", 252>>, <<"<U+00FF>", 255>>, <<"<U+0105>", 261>>, <<"<U+0107>", 263>>,
    <<"<U+0119>", 281>>, <<"<U+0141>", 321>>, <<"<U+0142>", 322>>, <<"<U+0144>", 324>>,
    <<"<U+0153>", 339>>, <<"<U+015B>", 347>>, <<"<U+017A>", 378>>, <<"<U+017C>", 380>>,
    <<"<U+0434>", 1076>>, <<"<U+1E9E>", 7838>>, <<"<U+3042>", 12354>>, <<"<U+30A2>", 12450>>,
    <<"<U+3400>", 13312>>, <<"<U+4E00>", 19968>>, <<"<U+4E2D>", 20013>>, <<"<U+9FFF>", 40959>>,
    <<"<U+D55C>", 54620>>>>
\* c.lower() of the characters written <U+XXXX> that have a lower case:
\* U+00C4 U+00C9 U+0141 U+1E9E
UNICODE_LOWER ==
  <<<<"<U+00C4>", "<U+00E4>">>, <<"<U+00C9>", "<U+00E9>">>, <<"<U+0141>", "<U+0142>">>, <<"<U+1E9E>", "<U+00DF>">>>>
\* sample characters: U+0061 U+005A U+0020 U+00DF U+00E4 U+00C4 U+1E9E U+00E9 U+00C9 U+00E7 U+00F1 U+00BF U+00E1 U+00EC U+00F3 U+0105 U+0141 U+4E00 U+4E2D U+9FFF U+3400 U+3042 U+30A2 U+D55C U+0434 U+00F8
DETECT_ALPHABET ==
  <<"a", "Z", " ", "<U+00DF>", "<U+00E4>", "<U+00C4>", "<U+1E9E>", "<U+00E9>", "<U+00C9>", "<U+00E7>", "<U+00F1>", "<U+00BF>", "<U+00E1>", "<U+00EC>", "<U+00F3>", "<U+0105>", "<U+0141>", "<U+4E00>", "<U+4E2D>", "<U+9FFF>", "<U+3400>", "<U+3042>", "<U+30A2>", "<U+D55C>", "<U+0434>", "<U+00F8>">>

\* c.lower() of one character
UnicodeLowerChar(c) ==
  IF \E k \in 1..Len(UNICODE_LOWER) : UNICODE_LOWER[k][1] = c
  THEN UNICODE_LOWER[CHOOSE k \in 1..Len(UNICODE_LOWER) : UNICODE_LOWER[k][1] = c][2]
  ELSE LowerChar(c)

\* text.lower()
UnicodeLower(text) == AsTuple([i \in 1..Len(text) |-> UnicodeLowerChar(text[i])])

\* re.search(r'[...]', text) for a class given by its characters
SearchChars(chars, text) == \E i \in 1..Len(text) : text[i] \in chars

\* c is in one of the ranges
InRanges(c, ranges) ==
  \E k \in 1..Len(CODE_POINTS) :
    /\ CODE_POINTS[k][1] = c
    /\ \E r \in ranges : r[1] <= CODE_POINTS[k][2] /\ CODE_POINTS[k][2] <= r[2]

\* re.search(r'[...]', text) for a class given by ranges of code points
SearchRanges(ranges, text) == \E i \in 1..Len(text) : InRanges(text[i], ranges)

\* a variant of _detect_language where the last class found in the text
\* decides, not the first
_detect_language_last_match(text) ==
  LET letters == {k \in 1..Len(LETTER_GROUPS) :
                    SearchChars(LETTER_GROUPS[k].chars, UnicodeLower(text))}
      ranges == {k \in 1..Len(RANGE_GROUPS) : SearchRanges(RANGE_GROUPS[k].ranges, text)}
  IN  IF ranges # {}
      THEN RANGE_GROUPS[CHOOSE k \in ranges : \A l \in ranges : l <= k].language
      ELSE IF letters # {}
      THEN LETTER_GROUPS[CHOOSE k \in letters : \A l \in letters : l <= k].language
      ELSE "English"

\* the if/elif chain: the first class found in the text decides
_detect_language(text) ==
  LET letters == {k \in 1..Len(LETTER_GROUPS) :
                    SearchChars(LETTER_GROUPS[k].chars, UnicodeLower(text))}
      ranges == {k \in 1..Len(RANGE_GROUPS) : SearchRanges(RANGE_GROUPS[k].ranges, text)}
  IN  IF letters # {}
      THEN LETTER_GROUPS[CHOOSE k \in letters : \A l \in letters : k <= l].language
      ELSE IF ranges # {}
      THEN RANGE_GROUPS[CHOOSE k \in ranges : \A l \in ranges : k <= l].language
      ELSE "English"

MaxTextLen == 2

\* the texts of at most n sample characters
RECURSIVE TextsOf(_)
TextsOf(n) ==
  IF n = 0 THEN {<<>>}
  ELSE TextsOf(n - 1)
       \cup {t \o <<DETECT_ALPHABET[c]>> : t \in TextsOf(n - 1), c \in 1..Len(DETECT_ALPHABET)}

DetectTexts == TextsOf(MaxTextLen) \cup {SAMPLE_PROMPTS[1]}

---------------------------------------------------------------------------
(* State machine *)

NoRequest == Request(<<>>, StrVal(<<>>), <<>>, <<>>)
NoOutcome == NotCalled

\* The state after  llm_client = LLMClient(); refiner = PromptRefiner(llm_client)
Init ==
  /\ api_key \in {"absent", "empty", "set"}
  /\ init_ok \in BOOLEAN
  /\ openai_client = _init_openai(api_key, init_ok)
  /\ session = NoRecord /\ now = 0
  /\ op = "__init__" /\ calls = 0
  /\ req = NoRequest /\ api = ApiRaises
  /\ api_calls = 0 /\ llm_out = NotCalled /\ out = NoOutcome
  /\ status = 0 /\ download = <<>>
  /\ detected_language = "None"

\* A caller is about to call the refiner or the client: its arguments, and
\* what the API will do if called
NewRequest ==
  /\ op # "request"
  /\ op' = "request"
  /\ req' \in CoreRequests
  /\ api' \in ApiBehaviours
  /\ api_calls' = 0 /\ llm_out' = NotCalled /\ out' = NoOutcome
  /\ UNCHANGED <<api_key, init_ok, openai_client, session, now, calls, status, download, detected_language>>

\* what refine_prompt does on the pending request
RefinePromptDoes ==
  refine_prompt(openai_client, req.original_prompt, req.selected_tool,
                req.selected_techniques, req.custom_techniques, api)

\* what refine_with_llm does on the pending request
RefineWithLlmDoes ==
  refine_with_llm(openai_client, req.original_prompt, req.selected_tool,
                  req.selected_techniques, req.custom_techniques, api)

\* PromptRefiner.refine_prompt
RefinePrompt ==
  /\ op = "request"
  /\ out' = RefinePromptDoes.outcome
  /\ llm_out' = RefinePromptDoes.llm
  /\ api_calls' = RefinePromptDoes.api_calls
  /\ op' = "refine_prompt"
  /\ UNCHANGED <<api_key, init_ok, openai_client, session, now, req, api, calls, status, download, detected_language>>

\* LLMClient.refine_with_llm called directly
RefineWithLlm ==
  /\ op = "request"
  /\ out' = RefineWithLlmDoes.outcome
  /\ llm_out' = RefineWithLlmDoes.outcome
  /\ api_calls' = RefineWithLlmDoes.api_calls
  /\ op' = "refine_with_llm"
  /\ UNCHANGED <<api_key, init_ok, openai_client, session, now, req, api, calls, status, download, detected_language>>

Next == NewRequest \/ RefinePrompt \/ RefineWithLlm

Spec == Init /\ [][Next]_vars

\* A browser posts a form to /refine; time has passed since the last request
SubmitForm ==
  /\ op # "request"
  /\ now < MaxTime
  /\ now' = now + 1
  /\ op' = "request"
  /\ req' \in Forms
  /\ api' \in FormBehaviours
  /\ api_calls' = 0 /\ llm_out' = NotCalled /\ out' = NoOutcome
  /\ status' = 0 /\ download' = <<>>
  /\ UNCHANGED <<api_key, init_ok, openai_client, session, calls, detected_language>>

\* request.form.get('prompt', '').strip()
FormPrompt == Strip(req.original_prompt)

\* line 61: refiner.refine_prompt on the fields of the form
HandlerRefineDoes ==
  refine_prompt(openai_client, FormPrompt, req.selected_tool, req.selected_techniques,
                Strip(req.custom_techniques), api)

\* the /refine handler, refine_prompt() of app.py
HandleRefine ==
  /\ op = "request"
  /\ IF FormPrompt = <<>>
     THEN /\ status' = 400
          /\ out' = ErrorBody("Please provide a prompt to refine")
          /\ UNCHANGED <<session, llm_out, api_calls>>
     ELSE IF Len(FormPrompt) > PromptMaxLen
     THEN /\ status' = 400
          /\ out' = ErrorBody("Prompt too long (max 5000 characters)")
          /\ UNCHANGED <<session, llm_out, api_calls>>
     ELSE IF HandlerRefineDoes.outcome.kind = "raise"
     THEN /\ status' = 500
          /\ out' = ErrorBody("An error occurred while refining the prompt")
          /\ llm_out' = HandlerRefineDoes.llm
          /\ api_calls' = HandlerRefineDoes.api_calls
          /\ UNCHANGED session
     ELSE /\ status' = 200
          /\ out' = HandlerRefineDoes.outcome
          /\ llm_out' = HandlerRefineDoes.llm
          /\ api_calls' = HandlerRefineDoes.api_calls
          /\ session' = last_refined(FormPrompt, HandlerRefineDoes.outcome, now)
  /\ op' = "/refine"
  /\ UNCHANGED <<api_key, init_ok, openai_client, now, req, api, calls, download, detected_language>>

\* a variant of the /download handler that removes the record it answers
\* with, as session.pop would
HandleDownloadPops ==
  /\ op # "request"
  /\ op' = "/download"
  /\ IF ~session.exists
     THEN status' = 404 /\ download' = <<>>
     ELSE status' = 200 /\ download' = download_content(session)
  /\ session' = NoRecord
  /\ out' = NoOutcome /\ llm_out' = NotCalled /\ api_calls' = 0
  /\ UNCHANGED <<api_key, init_ok, openai_client, now, req, api, calls, detected_language>>

\* the /download handler, download_refined() of app.py
HandleDownload ==
  /\ op # "request"
  /\ op' = "/download"
  /\ IF ~session.exists
     THEN status' = 404 /\ download' = <<>>
     ELSE status' = 200 /\ download' = download_content(session)
  /\ out' = NoOutcome /\ llm_out' = NotCalled /\ api_calls' = 0
  /\ UNCHANGED <<api_key, init_ok, openai_client, session, now, req, api, calls, detected_language>>

NextApp == SubmitForm \/ HandleRefine \/ HandleDownload

SpecApp == Init /\ [][NextApp]_vars

\* PromptRefiner._heuristic_refine called directly, on the request drawn at the start
CallHeuristic ==
  /\ op \in {"start", "_heuristic_refine"}
  /\ calls < MaxCalls
  /\ calls' = calls + 1
  /\ op' = "_heuristic_refine"
  /\ out' = _heuristic_refine(req.original_prompt, req.selected_tool,
                              req.selected_techniques, req.custom_techniques)
  /\ UNCHANGED <<api_key, init_ok, openai_client, session, now, req, api, api_calls, llm_out, status, download, detected_language>>

InitHeuristic ==
  /\ api_key = "absent" /\ init_ok = TRUE
  /\ openai_client = _init_openai(api_key, init_ok)
  /\ session = NoRecord /\ now = 0
  /\ op = "start" /\ calls = 0
  /\ req \in HeuristicRequests
  /\ api = ApiRaises /\ api_calls = 0 /\ llm_out = NotCalled /\ out = NoOutcome
  /\ status = 0 /\ download = <<>>
  /\ detected_language = "None"

NextHeuristic == CallHeuristic

SpecHeuristic == InitHeuristic /\ [][NextHeuristic]_vars

\* LLMClient._detect_language called on the text drawn at the start
DetectLanguage ==
  /\ op = "start"
  /\ op' = "_detect_language"
  /\ detected_language' = _detect_language(req.original_prompt)
  /\ UNCHANGED <<api_key, init_ok, openai_client, session, now, req, api, api_calls, llm_out, calls, out, status,
                 download>>

InitDetect ==
  /\ api_key = "absent" /\ init_ok = TRUE
  /\ openai_client = _init_openai(api_key, init_ok)
  /\ session = NoRecord /\ now = 0
  /\ op = "start" /\ calls = 0
  /\ req \in {Request(t, StrVal(unspecified), <<auto>>, <<>>) : t \in DetectTexts}
  /\ api = ApiRaises /\ api_calls = 0 /\ llm_out = NotCalled /\ out = NoOutcome
  /\ status = 0 /\ download = <<>>
  /\ detected_language = "None"

NextDetect == DetectLanguage

SpecDetect == InitDetect /\ [][NextDetect]_vars

---------------------------------------------------------------------------
(* Reading the text a refinement returns *)

\* how each section of the heuristic output begins, in the order of the
\* sections: Role, Objective, Task, Requirements, Prompting Technique,
\* AI Tool Optimization, Output Format, Self-Check
SectionHeads ==
  <<ROLE_SECTION, OBJECTIVE_LABEL, TASK_LABEL, REQUIREMENTS_LABEL, TECHNIQUE_LABEL,
    TOOL_LABEL, OUTPUT_FORMAT_LABEL, SELF_CHECK_SECTION>>

\* the indexes of text that follow a blank line, and its first index
ParagraphStarts(text) ==
  {1} \cup {i \in 3..Len(text) : text[i - 1] = "\n" /\ text[i - 2] = "\n"}

\* the number of the section that begins at index i of text, 0 when none does
SectionAt(text, i) ==
  IF \E k \in 1..Len(SectionHeads) : StartsWithAt(text, SectionHeads[k], i)
  THEN CHOOSE k \in 1..Len(SectionHeads) : StartsWithAt(text, SectionHeads[k], i)
  ELSE 0

\* the sections of text: <<i, k>> when section k begins at index i
Sections(text) ==
  {p \in {<<i, SectionAt(text, i)>> : i \in ParagraphStarts(text)} : p[2] # 0}

\* the numbers of the sections
SectionsOf(sections) == {p[2] : p \in sections}

\* section k of text, from its head to the blank line that ends it; <<>>
\* when text has no section k
SectionText(text, sections, k) ==
  LET mine == {p[1] : p \in {q \in sections : q[2] = k}}
  IN  IF mine = {} THEN <<>>
      ELSE LET first == CHOOSE i \in mine : \A j \in mine : i <= j
               later == {q[1] : q \in {r \in sections : r[1] > first}}
               last == IF later = {} THEN Len(text)
                       ELSE (CHOOSE j \in later : \A l \in later : j <= l) - 3
           IN  SubSeq(text, first, last)

\* what _heuristic_refine returns when called with the pending request
ReqHeuristic ==
  _heuristic_refine(req.original_prompt, req.selected_tool, req.selected_techniques,
                    req.custom_techniques)

\* the response text is an object with both fields, each a str
WellFormed(response_text) ==
  LET decoded == json_loads(Strip(response_text))
  IN  /\ decoded.ok
      /\ decoded.val.t = "dict"
      /\ PyIn(REFINED_PROMPT_KEY, decoded.val)
      /\ PyIn(RATIONALE_KEY, decoded.val)
      /\ GetItem(decoded.val, REFINED_PROMPT_KEY).t = "str"
      /\ GetItem(decoded.val, RATIONALE_KEY).t = "str"

---------------------------------------------------------------------------
(* Properties *)

\* C1: refine_prompt, on a prompt that is non-empty after trimming and at
\* most 5000 characters long, with whatever the model path does, returns a
\* result whose refined_prompt and rationale are both non-empty, and never
\* raises.
C1_Totality ==
  (op = "refine_prompt" /\ Strip(req.original_prompt) # <<>>
     /\ Len(req.original_prompt) <= PromptMaxLen)
  => (out.kind = "return" /\ out.refined_prompt # <<>> /\ out.rationale # <<>>)

\* C2: when the client is available and the API call fails, refine_prompt has
\* made exactly one API call, the failure was raised by the client and not by
\* refine_prompt, and what refine_prompt returns is what _heuristic_refine
\* returns for the same request.
C2_ApiFailureFallsBack ==
  (op = "refine_prompt" /\ has_llm_available(openai_client) /\ api.kind = "raise")
  => (/\ api_calls = 1
      /\ llm_out.kind = "raise"
      /\ out.kind = "return"
      /\ out = ReqHeuristic)

\* C2 happens: an available client whose one API call failed, and a result
\* returned all the same
C2_Witness ==
  /\ op = "refine_prompt" /\ has_llm_available(openai_client) /\ api.kind = "raise"
  /\ api_calls = 1 /\ llm_out.error = "OpenAI API error: call failed"
  /\ out.kind = "return" /\ out.refined_prompt # <<>>

\* C3: when the client is not available, what refine_prompt returns equals
\* in both fields what _heuristic_refine returns when called with the same
\* prompt, tool, techniques and custom techniques.
C3_UnavailableIsHeuristic ==
  (op = "refine_prompt" /\ ~has_llm_available(openai_client))
  => (/\ out.kind = "return"
      /\ out.refined_prompt = ReqHeuristic.refined_prompt
      /\ out.rationale = ReqHeuristic.rationale)

\* C3 happens: refine_prompt returned without a client, on a request that
\* selects techniques and a tool
C3_Witness ==
  /\ op = "refine_prompt" /\ ~has_llm_available(openai_client)
  /\ llm_out = NotCalled /\ out.kind = "return"
  /\ req.selected_techniques = <<tree_of_thought, self_consistency>>
  /\ req.selected_tool = StrVal(TOOLS[1])

\* C4: availability never changes after construction, whatever calls follow;
\* and when the key is absent or empty, or the client could not be
\* constructed, it is false and no call of refine_prompt or refine_with_llm
\* makes an API call.
C4_AvailabilityFixed ==
  /\ [][has_llm_available(openai_client)' = has_llm_available(openai_client)]_vars
  /\ []((api_key # "set" \/ ~init_ok)
          => (~has_llm_available(openai_client) /\ api_calls = 0))

\* C4 happens: the key was set but the client could not be constructed, and
\* refine_with_llm has been called since
C4_Witness ==
  /\ api_key = "set" /\ ~init_ok /\ ~has_llm_available(openai_client)
  /\ op = "refine_with_llm" /\ api.kind = "content"
  /\ out.kind = "raise" /\ api_calls = 0

\* C5: once the API call has returned a response, refine_with_llm returns;
\* and when the response text is no object with both fields as text, it
\* returns the response text as refined_prompt with the fixed rationale.
C5_MalformedNeverRaises ==
  (op = "refine_with_llm" /\ api_calls = 1 /\ api.kind # "raise")
  => (/\ out.kind = "return"
      /\ (api.kind = "content" /\ ~WellFormed(api.content))
           => out = Return(Strip(api.content), LLM_FALLBACK_RATIONALE))

\* C6: a response that is a valid two-field object wrapped in a fenced code
\* block gives the result that the same object gives unwrapped.
C6_FenceStripped ==
  \A t \in ValidResponses :
    (op = "refine_with_llm" /\ api_calls = 1 /\ api.kind = "content"
       /\ api.content \in Fenced(t))
    => out = refine_with_llm(openai_client, req.original_prompt, req.selected_tool,
                             req.selected_techniques, req.custom_techniques,
                             ApiContent(t)).outcome

\* C7: a form posted to /refine with no ai_tools and no prompt_techniques
\* fields is answered as the same form with ai_tools = unspecified and
\* prompt_techniques = auto is answered.
C7_DefaultsApplied ==
  (op = "/refine" /\ status \in {200, 500}
     /\ req.selected_tool = ListVal(<<>>) /\ req.selected_techniques = <<>>)
  => LET explicit == refine_prompt(openai_client, FormPrompt, ListVal(<<unspecified>>),
                                   <<auto>>, Strip(req.custom_techniques), api).outcome
     IN  IF status = 200 THEN out = explicit ELSE explicit.kind = "raise"

\* C8: the heuristic output is made of the sections Role, Objective, Task,
\* Requirements, Prompting Technique, AI Tool Optimization, Output Format,
\* Self-Check, in that order and each after a blank line; Objective, Task,
\* Requirements and Self-Check are always there, Role exactly when the prompt
\* has none of "you are", "act as", "role:", "as a" in any case, and Output
\* Format exactly when it has none of "format:", "structure:", "output:",
\* "return" in any case.
C8_SectionOrder ==
  (op = "_heuristic_refine")
  => (/\ out.kind = "return"
      /\ LET text == out.refined_prompt
             sections == Sections(text)
             present == SectionsOf(sections)
             prompt_lower == Lower(req.original_prompt)
         IN  /\ \E p \in sections : p[1] = 1
             /\ \A p, q \in sections : p[1] < q[1] => p[2] < q[2]
             /\ {2, 3, 4, 8} \subseteq present
             /\ SectionText(text, sections, 8) = SELF_CHECK_SECTION
             /\ (1 \in present) <=> ~ContainsAny(prompt_lower, ROLE_WORDS)
             /\ (7 \in present) <=> ~ContainsAny(prompt_lower, OUTPUT_FORMAT_WORDS))

\* C8 happens: an output with a Role section and no Output Format section,
\* and with both optional sections in between
C8_Witness ==
  /\ op = "_heuristic_refine" /\ out.kind = "return"
  /\ SectionsOf(Sections(out.refined_prompt)) = {1, 2, 3, 4, 5, 6, 8}
  /\ Contains(Lower(req.original_prompt), OUTPUT_FORMAT_WORDS[4])

\* C9: with chain_of_thought alone selected and a prompt holding neither
\* "step" nor "think" in any case, the Task section is the trimmed prompt
\* followed by the step-by-step instruction and nothing else, after the
\* first call and after every later call with the same request.
C9_ChainOfThoughtOnce ==
  (/\ op = "_heuristic_refine"
   /\ req.selected_techniques = <<chain_of_thought>>
   /\ ~Contains(Lower(req.original_prompt), STEP)
   /\ ~Contains(Lower(req.original_prompt), THINK))
  => (/\ out.kind = "return"
      /\ SectionText(out.refined_prompt, Sections(out.refined_prompt), 3)
           = TASK_LABEL \o Strip(req.original_prompt) \o COT_APPEND)

\* C9 happens: a second call with chain_of_thought alone, on a prompt that
\* would get the systematic append were chain_of_thought not selected
C9_Witness ==
  /\ op = "_heuristic_refine" /\ calls >= 2 /\ out.kind = "return"
  /\ req.selected_techniques = <<chain_of_thought>>
  /\ ~Contains(Lower(req.original_prompt), STEP)
  /\ ~Contains(Lower(req.original_prompt), THINK)
  /\ ContainsAny(Lower(req.original_prompt), COMPLEX_WORDS)
  /\ Strip(req.original_prompt) # req.original_prompt

\* C10: the AI Tool Optimization section is in the heuristic output only
\* if the tool is not unspecified; for chatgpt, gemini, claude, perplexity
\* and copilot the section is that tool's line and holds no line of another
\* tool; for any other tool the output has no tool's line in such a section;
\* and in every case a result is returned.
C10_ToolGuidance ==
  (op = "_heuristic_refine" /\ ~req.selected_tool.isList)
  => (/\ out.kind = "return"
      /\ LET text == out.refined_prompt
             sections == Sections(text)
             tool == req.selected_tool.str
             section == SectionText(text, sections, 6)
             known == {k \in 1..Len(TOOL_GUIDANCE) : TOOL_GUIDANCE[k][1] = tool}
         IN  /\ (6 \in SectionsOf(sections)) => tool # unspecified
             /\ \A k \in known : section = TOOL_LABEL \o TOOL_GUIDANCE[k][2]
             /\ \A k \in (1..Len(TOOL_GUIDANCE)) \ known :
                  ~Contains(section, TOOL_GUIDANCE[k][2]))

\* C10 happens: gemini selected, and its line in the output returned
C10_Witness ==
  /\ op = "_heuristic_refine" /\ out.kind = "return"
  /\ req.selected_tool = StrVal(TOOLS[2])
  /\ Contains(out.refined_prompt, TOOL_GUIDANCE[2][2])

\* the languages other than English, in the order the groups are tested
LanguageOrder ==
  <<"German", "French", "Spanish", "Italian", "Polish", "Chinese", "Japanese", "Korean",
    "Russian">>

\* c is a distinctive character of the group of a language: in any case for
\* the groups of letters, in the ranges of code points for the others
Distinctive(language, c) ==
  \/ \E k \in 1..Len(LETTER_GROUPS) :
       LETTER_GROUPS[k].language = language /\ UnicodeLowerChar(c) \in LETTER_GROUPS[k].chars
  \/ \E k \in 1..Len(RANGE_GROUPS) :
       RANGE_GROUPS[k].language = language /\ InRanges(c, RANGE_GROUPS[k].ranges)

\* C11: _detect_language returns, for every text and the empty one too, the
\* first language of German, French, Spanish, Italian, Polish, Chinese,
\* Japanese, Korean, Russian whose group has a distinctive character in the
\* text, and English when none has; a text with the sharp s gives German, a
\* non-empty text of CJK Unified Ideographs (U+4E00 to U+9FFF) only gives
\* Chinese, and a text of ASCII characters only gives English.
C11_FirstMatchWins ==
  (op = "_detect_language")
  => LET text == req.original_prompt
         matching == {k \in 1..Len(LanguageOrder) :
                        \E i \in 1..Len(text) : Distinctive(LanguageOrder[k], text[i])}
         ascii == \A i \in 1..Len(text) :
                    \A k \in 1..Len(CODE_POINTS) : CODE_POINTS[k][1] # text[i]
     IN  /\ IF matching = {} THEN detected_language = "English"
            ELSE detected_language
                   = LanguageOrder[CHOOSE k \in matching : \A l \in matching : k <= l]
         /\ (\E i \in 1..Len(text) : text[i] = "<U+00DF>") => detected_language = "German"
         /\ (text # <<>> /\ \A i \in 1..Len(text) : InRanges(text[i], {<<19968, 40959>>}))
              => detected_language = "Chinese"
         /\ ascii => detected_language = "English"

\* C11 happens: a text whose first character is distinctive of French,
\* Spanish and Italian and whose second is distinctive of German and French
\* was detected as German
C11_Witness ==
  /\ op = "_detect_language"
  /\ req.original_prompt = <<"<U+00E9>", "<U+00E4>">>
  /\ detected_language = "German"

\* C12: the Task section ends with the systematic-approach instruction
\* exactly when the prompt is longer than 200 characters or holds one of
\* "analyze", "create", "develop", "design", the chain-of-thought append was
\* not applied, and "step" is not in the prompt (so also when
\* chain_of_thought is selected and its append was skipped for "think");
\* and the Task section is the trimmed prompt followed by those of the
\* chain-of-thought, tree-of-thought, self-consistency and systematic
\* appends that fire, in that order.
C12_SystematicAppend ==
  (op = "_heuristic_refine" /\ out.kind = "return")
  => LET text == out.refined_prompt
         task == SectionText(text, Sections(text), 3)
         prompt == req.original_prompt
         prompt_lower == Lower(prompt)
         cot_applied == /\ InList(chain_of_thought, req.selected_techniques)
                        /\ ~Contains(prompt_lower, STEP)
                        /\ ~Contains(prompt_lower, THINK)
         expected == /\ Len(prompt) > TaskLongLen \/ ContainsAny(prompt_lower, COMPLEX_WORDS)
                     /\ ~cot_applied
                     /\ ~Contains(prompt_lower, STEP)
         systematic == /\ Len(task) >= Len(SYSTEMATIC_APPEND)
                       /\ StartsWithAt(task, SYSTEMATIC_APPEND,
                                       Len(task) - Len(SYSTEMATIC_APPEND) + 1)
     IN  /\ systematic <=> expected
         /\ \E cot, tot, sc, sys \in BOOLEAN :
              task = TASK_LABEL \o Strip(prompt)
                       \o (IF cot THEN COT_APPEND ELSE <<>>)
                       \o (IF tot THEN TOT_APPEND ELSE <<>>)
                       \o (IF sc THEN SC_APPEND ELSE <<>>)
                       \o (IF sys THEN SYSTEMATIC_APPEND ELSE <<>>)

\* C13: over every sequence of /refine and /download requests of a session,
\* no record exists at the start; a /refine answered 200 stores that call's
\* trimmed prompt, refined prompt and rationale as the record; a /refine
\* answered 400 or 500, and the arrival of a form, leave the record as it
\* was; /download leaves the record as it was, answers 404 when none exists
\* and otherwise the file made of the record.  So a record exists exactly
\* when some /refine has succeeded, and it is that of the latest one.
C13_SessionRecord ==
  /\ ~session.exists
  /\ [][/\ (op' = "/refine" /\ status' = 200)
             => (/\ session'.exists
                 /\ session'.original = Strip(req.original_prompt)
                 /\ session'.refined = out'.refined_prompt
                 /\ session'.rationale = out'.rationale)
        /\ (op' = "/refine" /\ status' # 200) => session' = session
        /\ (op' = "request") => session' = session
        /\ (op' = "/download")
             => (/\ session' = session
                 /\ IF session.exists
                    THEN status' = 200 /\ download' = download_content(session)
                    ELSE status' = 404 /\ download' = <<>>)]_vars

\* C13 happens: the second /refine of a session ended in an error, and the
\* record of the first is still there
C13_Witness ==
  /\ op = "/refine" /\ status = 500 /\ now = 2
  /\ session.exists /\ session.timestamp = isoformat(1)
  /\ session.original = Strip(FORM_PROMPTS[3])
====
